---- MODULE Spec2Model ----
(***************************************************************************)
(* Model of caesar.cpp (Caesar cipher cracker, RU/EN).                     *)
(*                                                                         *)
(* A std::string is a sequence of bytes (0..255); a vector<char32_t> is a  *)
(* sequence of codepoints.  Every function of the source that the checked  *)
(* properties need is an operator of the same name, computed the way the   *)
(* code computes it (UTF-8 is decoded and encoded byte by byte).           *)
(***************************************************************************)
EXTENDS Integers, Sequences, FiniteSets, TLC

VARIABLES
    pc,         \* position of the run
    text, lang, \* the arguments: a byte string and "ru" or "en"
    shift, dec, back,       \* decrypt: the key, its result, the result of undoing it
    smap, smoothed, merged, \* find_boundaries: its argument, its two vectors
    lsegs,                  \* split_by_language: the returned segments
    dict_file,              \* the words load_file finds for the language in use
    words, dres,            \* dict_score: the word list and the returned triple
    results,                \* crack: the returned vector of ShiftResult
    segs,                   \* detect_mixed: the returned vector of Segment
    decoded,                \* utf8_decode: the returned vector of codepoints
    plain,                  \* is_plaintext: the returned bool
    stemmed, stem_sc,       \* stem_word and stem_dict_score: what they return
    from_idx, letter, to_idx \* the index functions: an index, its letter, the index of the letter

decryptVars == <<shift, dec, back>>
boundVars == <<smap, smoothed, merged>>
scoreVars == <<words, dres, results, segs>>
indexVars == <<from_idx, letter, to_idx>>
auxVars == <<decoded, plain, stemmed, stem_sc, indexVars>>
vars == <<pc, text, lang, decryptVars, boundVars, lsegs, dict_file, scoreVars, auxVars>>

\* the values of the variables an operation has not touched
NoDecrypt == shift = 0 /\ dec = <<>> /\ back = <<>>
NoBounds == smap = <<>> /\ smoothed = <<>> /\ merged = <<>>
NoSplit == lsegs = <<>>
NoScores == words = <<>> /\ dres = <<>> /\ results = <<>> /\ segs = <<>>
NoIndex == from_idx = 0 /\ letter = 0 /\ to_idx = -1
NoAux == decoded = <<>> /\ plain = FALSE /\ stemmed = <<>> /\ stem_sc = 0 /\ NoIndex

(***************************************************************************)
(* Bounds of the model                                                     *)
(***************************************************************************)
\* longest text (in codepoints) drawn from a small alphabet for decrypt
MaxLen == 2
\* longest text (in codepoints) given to split_by_language
MaxSplitLen == 5
\* most words in a word list given to dict_score
MaxWords == 3
\* longest text (in codepoints) drawn from a small alphabet for crack
MaxCrackLen == 2
\* longest text (in codepoints) drawn from a small alphabet for crack and detect_mixed
MaxMixedLen == 2
\* longest text (in codepoints) drawn from a small alphabet for is_plaintext
MaxPlainLen == 2
\* longest word (in codepoints) drawn from a small alphabet for stem_word
MaxStemLen == 4
\* most words in a word list given to stem_dict_score
MaxStemWords == 2
\* longest byte string given to utf8_decode
MaxBytes == 3
\* most lines of a dictionary file before its closing line
MaxLines == 2
\* longest shift map, and the most runs of equal keys it is built from
MaxMapLen == 24
MaxRuns == 3

(***************************************************************************)
(* Generic helpers                                                         *)
(***************************************************************************)
Max(a, b) == IF a > b THEN a ELSE b
Min(a, b) == IF a < b THEN a ELSE b

\* C++ operator % on int: the remainder has the sign of the dividend
CRem(a, b) == IF a >= 0 THEN a % b ELSE -((-a) % b)

RECURSIVE SeqsUpTo(_, _)
SeqsUpTo(S, n) ==
    IF n = 0 THEN {<<>>}
    ELSE LET prev == SeqsUpTo(S, n - 1)
         IN  prev \cup {Append(s, x) : s \in {p \in prev : Len(p) = n - 1}, x \in S}

\* the elements of a finite set of integers in increasing order
SortedSeq(S) ==
    [k \in 1..Cardinality(S) |-> CHOOSE x \in S : Cardinality({y \in S : y < x}) = k - 1]

RECURSIVE Flatten(_)
Flatten(ss) ==
    IF Len(ss) = 0 THEN <<>>
    ELSE IF Len(ss) = 1 THEN ss[1]
    ELSE LET h == Len(ss) \div 2
         IN  Flatten(SubSeq(ss, 1, h)) \o Flatten(SubSeq(ss, h + 1, Len(ss)))

(***************************************************************************)
(* UTF-8                                                                   *)
(***************************************************************************)
\* inner loop of utf8_decode: cp = (cp << 6) | (s[i + j] & 0x3F)
RECURSIVE utf8_cont(_, _, _, _, _)
utf8_cont(s, i, j, len, cp) ==
    IF j < len /\ i + j <= Len(s)
    THEN utf8_cont(s, i, j + 1, len, (cp * 64) + (s[i + j] % 64))
    ELSE cp

\* the length the lead byte c announces, 0 for a byte the loop skips
utf8_len(c) ==
    IF c < 128 THEN 1
    ELSE IF c \div 32 = 6 THEN 2
    ELSE IF c \div 16 = 14 THEN 3
    ELSE IF c \div 8 = 30 THEN 4
    ELSE 0

\* the payload bits of the lead byte c
utf8_lead(c) ==
    IF c < 128 THEN c
    ELSE IF c \div 32 = 6 THEN c % 32
    ELSE IF c \div 16 = 14 THEN c % 16
    ELSE c % 8

\* one pass of the main loop at byte position i (1-based): what it pushes
\* and where the next pass begins
utf8_pass(s, i) ==
    LET len == utf8_len(s[i])
    IN  [out  |-> IF len = 0 THEN <<>>
                  ELSE <<utf8_cont(s, i, 1, len, utf8_lead(s[i]))>>,
         next |-> i + Max(len, 1)]

utf8_join(a, b) == [out |-> a.out \o b.out, next |-> b.next]

\* the passes of the main loop that begin at a position in i..hi-1, in
\* order, i being the position of the first: those before the middle of the
\* range, then the others
RECURSIVE utf8_scan(_, _, _)
RECURSIVE utf8_then(_, _, _)
utf8_scan(s, i, hi) ==
    IF i >= hi THEN [out |-> <<>>, next |-> i]
    ELSE IF hi - i = 1 THEN utf8_pass(s, i)
    ELSE utf8_then(s, utf8_scan(s, i, (i + hi) \div 2), hi)

utf8_then(s, a, hi) == utf8_join(a, utf8_scan(s, a.next, hi))

utf8_decode(s) == utf8_scan(s, 1, Len(s) + 1).out

\* bytes of one codepoint; (char) keeps the low 8 bits
utf8_append(cp) ==
    IF cp < 128 THEN <<cp>>
    ELSE IF cp < 2048 THEN <<(192 + (cp \div 64)) % 256, 128 + (cp % 64)>>
    ELSE IF cp < 65536
         THEN <<(224 + (cp \div 4096)) % 256, 128 + ((cp \div 64) % 64), 128 + (cp % 64)>>
    ELSE <<(240 + (cp \div 262144)) % 256, 128 + ((cp \div 4096) % 64),
           128 + ((cp \div 64) % 64), 128 + (cp % 64)>>

utf8_encode(cps) == Flatten([i \in 1..Len(cps) |-> utf8_append(cps[i])])

\* length in characters, from the leading bytes only
utf8_charlen_step(c) ==
    IF c < 128 THEN 1
    ELSE IF c \div 32 = 6 THEN 2
    ELSE IF c \div 16 = 14 THEN 3
    ELSE 4

utf8_charlen_join(a, b) == [len |-> a.len + b.len, next |-> b.next]

\* the passes of the loop that begin at a byte position in i..hi-1 (1-based),
\* i being the position of the first: how many, and where the next begins
RECURSIVE utf8_charlen_scan(_, _, _)
RECURSIVE utf8_charlen_then(_, _, _)
utf8_charlen_scan(s, i, hi) ==
    IF i >= hi THEN [len |-> 0, next |-> i]
    ELSE IF hi - i = 1 THEN [len |-> 1, next |-> i + utf8_charlen_step(s[i])]
    ELSE utf8_charlen_then(s, utf8_charlen_scan(s, i, (i + hi) \div 2), hi)

utf8_charlen_then(s, a, hi) == utf8_charlen_join(a, utf8_charlen_scan(s, a.next, hi))

utf8_charlen(s) == utf8_charlen_scan(s, 1, Len(s) + 1).len

(***************************************************************************)
(* Character classes (RU / EN)                                             *)
(***************************************************************************)
is_ru_lower(c) == (c >= 1072 /\ c <= 1103) \/ c = 1105
is_ru_upper(c) == (c >= 1040 /\ c <= 1071) \/ c = 1025
is_ru(c) == is_ru_lower(c) \/ is_ru_upper(c)

is_en_lower(c) == c >= 97 /\ c <= 122
is_en_upper(c) == c >= 65 /\ c <= 90
is_en(c) == is_en_lower(c) \/ is_en_upper(c)

to_lower(c) ==
    IF c = 1025 THEN 1105
    ELSE IF c >= 1040 /\ c <= 1071 THEN c + 32
    ELSE IF c >= 65 /\ c <= 90 THEN c + 32
    ELSE c

\* to_upper without its first line (yo is not upper-cased)
to_upper_no_yo(c) ==
    IF c >= 1072 /\ c <= 1103 THEN c - 32
    ELSE IF c >= 97 /\ c <= 122 THEN c - 32
    ELSE c

to_upper(c) ==
    IF c = 1105 THEN 1025
    ELSE IF c >= 1072 /\ c <= 1103 THEN c - 32
    ELSE IF c >= 97 /\ c <= 122 THEN c - 32
    ELSE c

RU_SIZE == 33
EN_SIZE == 26

\* ru_index without the to_lower of its first line
ru_index_case_sensitive(c0) ==
    LET c == c0 IN
    IF c = 1105 THEN 6
    ELSE IF c >= 1072 /\ c <= 1077 THEN c - 1072
    ELSE IF c >= 1078 /\ c <= 1103 THEN (c - 1078) + 7
    ELSE -1

ru_index(c0) ==
    LET c == to_lower(c0) IN
    IF c = 1105 THEN 6
    ELSE IF c >= 1072 /\ c <= 1077 THEN c - 1072
    ELSE IF c >= 1078 /\ c <= 1103 THEN (c - 1078) + 7
    ELSE -1

\* ru_from_index that forgets that yo sits outside the Unicode run
ru_from_index_unicode(idx) == 1072 + idx

ru_from_index(idx) ==
    IF idx = 6 THEN 1105
    ELSE IF idx < 6 THEN 1072 + idx
    ELSE 1078 + (idx - 7)

en_index(c0) ==
    LET c == to_lower(c0) IN
    IF c >= 97 /\ c <= 122 THEN c - 97 ELSE -1

en_from_index(idx) == 97 + idx

is_upper_cp(c) == is_ru_upper(c) \/ is_en_upper(c)

\* the per-language selections written as (lang == "ru") ? ... : ...
alpha_size(l) == IF l = "ru" THEN RU_SIZE ELSE EN_SIZE
\* idx_fn that finds a letter of either alphabet whatever the language
idx_fn_any_alphabet(l, c) == IF ru_index(c) >= 0 THEN ru_index(c) ELSE en_index(c)
idx_fn(l, c) == IF l = "ru" THEN ru_index(c) ELSE en_index(c)
from_fn(l, i) == IF l = "ru" THEN ru_from_index(i) ELSE en_from_index(i)
is_letter(l, c) == IF l = "ru" THEN is_ru(c) ELSE is_en(c)

(***************************************************************************)
(* decrypt                                                                 *)
(***************************************************************************)
\* decrypt_cp without the guard against a negative remainder
decrypt_cp_neg(cp, k, l) ==
    LET up  == is_upper_cp(cp)
        idx == idx_fn(l, to_lower(cp))
        sz  == alpha_size(l)
    IN  IF idx < 0 THEN cp
        ELSE LET ni == CRem(idx - k, sz)
                 lo == from_fn(l, ni)
             IN  IF up THEN to_upper(lo) ELSE lo

\* body of the loop of decrypt for one codepoint
decrypt_cp(cp, k, l) ==
    LET up  == is_upper_cp(cp)
        idx == idx_fn(l, to_lower(cp))
        sz  == alpha_size(l)
    IN  IF idx < 0 THEN cp
        ELSE LET ni == CRem(CRem(idx - k, sz) + sz, sz)
                 lo == from_fn(l, ni)
             IN  IF up THEN to_upper(lo) ELSE lo

decrypt(t, k, l) ==
    LET cps == utf8_decode(t)
    IN  utf8_encode([i \in 1..Len(cps) |-> decrypt_cp(cps[i], k, l)])

(***************************************************************************)
(* Linguistic constants                                                    *)
(***************************************************************************)
\* letter frequencies by alphabet index, in units of 1/10000
RU_FREQ == <<
    801, 159, 454, 170, 298, 845, 4, 94, 165, 735, 121,
    349, 440, 321, 670, 1097, 281, 473, 547, 626, 262, 26,
    97, 48, 144, 73, 36, 4, 190, 174, 32, 64, 201 >>

EN_FREQ == <<
    817, 129, 278, 425, 1270, 223, 202, 609, 697, 15, 77,
    403, 241, 675, 751, 193, 10, 599, 633, 906, 276, 98,
    236, 15, 197, 7 >>

\* the bigram lists of init_bigrams, as codepoints
\* the suffix lists, as codepoints, in the order of the source
RU_SUFFIX_CPS == <<
    <<1086, 1089, 1090, 1100>>, <<1077, 1085, 1080, 1077>>, <<1072, 1085, 1080, 1077>>, <<1090, 1100, 1089, 1103>>,
    <<1102, 1090, 1089, 1103>>, <<1080, 1090, 1089, 1103>>, <<1085, 1086, 1075, 1086>>, <<1085, 1086, 1084, 1091>>,
    <<1089, 1082, 1080, 1084>>, <<1089, 1082, 1086, 1081>>, <<1085, 1099, 1093>>, <<1085, 1099, 1077>>,
    <<1085, 1099, 1081>>, <<1085, 1072, 1103>>, <<1085, 1086, 1077>>, <<1085, 1086, 1081>>,
    <<1086, 1075, 1086>>, <<1086, 1084, 1091>>, <<1099, 1084, 1080>>, <<1072, 1084, 1080>>,
    <<1103, 1084, 1080>>, <<1072, 1090, 1100>>, <<1103, 1090, 1100>>, <<1077, 1090, 1100>>,
    <<1080, 1090, 1100>>, <<1091, 1077, 1090>>, <<1072, 1077, 1090>>, <<1102, 1090>>,
    <<1091, 1090>>, <<1080, 1090>>, <<1077, 1090>>, <<1086, 1074>>,
    <<1077, 1074>>, <<1077, 1081>>, <<1080, 1081>>, <<1099, 1081>>,
    <<1086, 1081>>, <<1072, 1103>>, <<1086, 1077>>, <<1080, 1077>>,
    <<1086, 1084>>, <<1077, 1084>>, <<1072, 1084>>, <<1103, 1084>>,
    <<1072, 1093>>, <<1103, 1093>>, <<1099, 1093>>, <<1080, 1093>>,
    <<1072, 1083>>, <<1080, 1083>>, <<1077, 1083>>, <<1086, 1083>>,
    <<1091, 1083>>, <<1090, 1100>>, <<1089, 1103>>, <<1089, 1100>> >>

EN_SUFFIX_CPS == <<
    <<116, 105, 111, 110>>, <<110, 101, 115, 115>>, <<109, 101, 110, 116>>, <<97, 98, 108, 101>>, <<105, 98, 108, 101>>,
    <<105, 111, 117, 115>>, <<101, 111, 117, 115>>, <<105, 110, 103>>, <<111, 117, 115>>, <<102, 117, 108>>,
    <<105, 118, 101>>, <<105, 116, 121>>, <<101, 110, 116>>, <<97, 110, 116>>, <<105, 111, 110>>,
    <<105, 115, 109>>, <<105, 115, 116>>, <<111, 114, 121>>, <<97, 114, 121>>, <<101, 114, 121>>,
    <<117, 114, 101>>, <<97, 103, 101>>, <<105, 115, 101>>, <<105, 122, 101>>, <<108, 121>>,
    <<101, 114>>, <<101, 100>>, <<101, 115>>, <<97, 108>>, <<101, 110>>,
    <<116, 121>>, <<111, 114>>, <<105, 99>>, <<108, 101>>, <<115>> >>

\* the built-in word lists of load_ru and load_en, as codepoints
Encoded(ws) == [i \in 1..Len(ws) |-> utf8_encode(ws[i])]
Range(sq) == {sq[i] : i \in 1..Len(sq)}

RU_SUFFIXES == Encoded(RU_SUFFIX_CPS)
EN_SUFFIXES == Encoded(EN_SUFFIX_CPS)

\* init_bigram: the set of table positions a * sz + b that are set to true
init_bigram(sz, l, bigrams) ==
    {idx_fn(l, bigrams[i][1]) * sz + idx_fn(l, bigrams[i][2]) :
        i \in {j \in 1..Len(bigrams) :
                  /\ Len(bigrams[j]) = 2
                  /\ idx_fn(l, bigrams[j][1]) >= 0
                  /\ idx_fn(l, bigrams[j][2]) >= 0}}

RU_BG_TABLE == init_bigram(RU_SIZE, "ru", <<
    <<1089, 1090>>, <<1085, 1086>>, <<1090, 1086>>, <<1085, 1072>>, <<1077, 1085>>, <<1085, 1080>>,
    <<1082, 1086>>, <<1088, 1072>>, <<1086, 1074>>, <<1088, 1086>>, <<1086, 1089>>, <<1072, 1083>>,
    <<1077, 1088>>, <<1086, 1085>>, <<1085, 1077>>, <<1083, 1080>>, <<1087, 1086>>, <<1088, 1077>>,
    <<1086, 1088>>, <<1072, 1085>>, <<1087, 1088>>, <<1077, 1090>>, <<1086, 1083>>, <<1090, 1072>>,
    <<1077, 1083>>, <<1082, 1072>>, <<1074, 1086>>, <<1090, 1080>>, <<1074, 1072>>, <<1086, 1076>>,
    <<1072, 1090>>, <<1083, 1077>>, <<1086, 1090>>, <<1090, 1077>>, <<1083, 1072>>, <<1086, 1084>>,
    <<1076, 1077>>, <<1077, 1089>>, <<1074, 1077>>, <<1083, 1086>>, <<1086, 1075>>, <<1079, 1072>>,
    <<1089, 1082>>, <<1090, 1100>>, <<1080, 1085>>, <<1080, 1090>>, <<1087, 1077>>, <<1089, 1077>>,
    <<1086, 1073>>, <<1076, 1072>>, <<1077, 1084>>, <<1075, 1086>>, <<1072, 1089>>, <<1080, 1079>>,
    <<1080, 1077>>, <<1088, 1080>>, <<1080, 1083>>, <<1077, 1076>>, <<1072, 1088>>, <<1072, 1084>>,
    <<1076, 1086>>, <<1080, 1089>>, <<1090, 1088>>, <<1085, 1099>>, <<1084, 1080>>, <<1095, 1072>>,
    <<1073, 1086>>, <<1077, 1075>>, <<1088, 1091>>, <<1084, 1077>>, <<1084, 1086>>, <<1075, 1080>>,
    <<1076, 1080>>, <<1074, 1080>>, <<1073, 1077>>, <<1072, 1082>>, <<1082, 1080>>, <<1086, 1077>> >>)

EN_BG_TABLE == init_bigram(EN_SIZE, "en", <<
    <<116, 104>>, <<104, 101>>, <<105, 110>>, <<101, 114>>, <<97, 110>>, <<114, 101>>,
    <<111, 110>>, <<97, 116>>, <<101, 110>>, <<110, 100>>, <<116, 105>>, <<101, 115>>,
    <<111, 114>>, <<116, 101>>, <<111, 102>>, <<101, 100>>, <<105, 115>>, <<105, 116>>,
    <<97, 108>>, <<97, 114>>, <<115, 116>>, <<116, 111>>, <<110, 116>>, <<110, 103>>,
    <<115, 101>>, <<104, 97>>, <<97, 115>>, <<111, 117>>, <<105, 111>>, <<108, 101>>,
    <<118, 101>>, <<99, 111>>, <<109, 101>>, <<100, 101>>, <<104, 105>>, <<114, 105>>,
    <<114, 111>>, <<105, 99>>, <<110, 101>>, <<101, 97>>, <<114, 97>>, <<99, 101>>,
    <<108, 105>>, <<99, 104>>, <<108, 108>>, <<98, 101>>, <<109, 97>>, <<115, 105>>,
    <<111, 109>>, <<117, 114>>, <<99, 97>>, <<101, 108>>, <<116, 97>>, <<108, 97>>,
    <<110, 115>>, <<103, 101>>, <<101, 99>>, <<105, 108>>, <<112, 101>>, <<111, 108>>,
    <<110, 111>>, <<110, 97>>, <<117, 115>>, <<100, 105>>, <<119, 97>>, <<101, 109>>,
    <<97, 99>>, <<115, 115>> >>)

\* Dictionary::load_ru / load_en: the words of the file, if any, and the
\* built-in words
\* std::getline until it fails: the lines of the byte string s, without
\* their '\n'; what follows the last '\n' is a line when it is not empty
getlines(s) ==
    LET nl   == SortedSeq({i \in 1..Len(s) : s[i] = 10})
        m    == Len(nl)
        from(k) == IF k = 1 THEN 1 ELSE nl[k - 1] + 1
        full == [k \in 1..m |-> SubSeq(s, from(k), nl[k] - 1)]
    IN  IF from(m + 1) <= Len(s) THEN <<>> \o full \o <<SubSeq(s, from(m + 1), Len(s))>>
        ELSE <<>> \o full

\* the loop that pops '\r', '\n' and ' ' off the end of the line
trim_line(line) ==
    LET keep == {i \in 1..Len(line) : line[i] \notin {13, 10, 32}}
    IN  IF keep = {} THEN <<>>
        ELSE SubSeq(line, 1, CHOOSE i \in keep : \A j \in keep : j <= i)

\* the word load_file inserts for the line, as a set: none when the line is
\* empty, shorter than 2 or longer than 50 codepoints, or has a codepoint
\* that is no letter of either alphabet
line_words(line) ==
    LET t  == trim_line(line)
        cs == utf8_decode(t)
        lw == [i \in 1..Len(cs) |-> to_lower(cs[i])]
    IN  IF t = <<>> THEN {}
        ELSE IF Len(cs) < 2 \/ Len(cs) > 50 THEN {}
        ELSE IF \E i \in 1..Len(cs) : ~is_ru(lw[i]) /\ ~is_en(lw[i]) THEN {}
        ELSE {utf8_encode(lw)}

\* load_file on an open file with the bytes content: what it adds to dict
load_file(content) ==
    LET ls == getlines(content)
    IN  UNION {line_words(ls[k]) : k \in 1..Len(ls)}

\* find_dict: the file counts when it exists and is larger than 100 bytes
DICT_MIN_SIZE == 100
find_dict(content) == Len(content) > DICT_MIN_SIZE

load_ru(file_words) == file_words \cup Range(Encoded(<<
    <<1080>>, <<1074>>, <<1085, 1077>>, <<1085, 1072>>, <<1086, 1085>>,
    <<1095, 1090, 1086>>, <<1082, 1072, 1082>>, <<1072>>, <<1090, 1086>>, <<1074, 1089, 1077>>,
    <<1086, 1085, 1072>>, <<1090, 1072, 1082>>, <<1077, 1075, 1086>>, <<1085, 1086>>, <<1076, 1072>>,
    <<1090, 1099>>, <<1078, 1077>>, <<1074, 1099>>, <<1079, 1072>>, <<1073, 1099>>,
    <<1087, 1086>>, <<1086, 1090>>, <<1080, 1079>>, <<1076, 1083, 1103>>, <<1101, 1090, 1086>>,
    <<1084, 1099>>, <<1086, 1085, 1080>>, <<1073, 1099, 1083>>, <<1073, 1099, 1090, 1100>> >>))

load_en(file_words) == file_words \cup Range(Encoded(<<
    <<116, 104, 101>>, <<98, 101>>, <<116, 111>>, <<111, 102>>, <<97, 110, 100>>,
    <<105, 110>>, <<116, 104, 97, 116>>, <<104, 97, 118, 101>>, <<105, 116>>, <<102, 111, 114>>,
    <<110, 111, 116>>, <<111, 110>>, <<119, 105, 116, 104>>, <<104, 101>>, <<97, 115>>,
    <<121, 111, 117>>, <<100, 111>>, <<97, 116>>, <<116, 104, 105, 115>>, <<98, 117, 116>>,
    <<104, 105, 115>>, <<98, 121>>, <<102, 114, 111, 109>>, <<116, 104, 101, 121>>, <<119, 101>>,
    <<115, 97, 121>>, <<104, 101, 114>>, <<115, 104, 101>>, <<111, 114>>, <<97, 110>>,
    <<119, 105, 108, 108>>, <<109, 121>>, <<111, 110, 101>>, <<97, 108, 108>>, <<119, 111, 117, 108, 100>>,
    <<116, 104, 101, 114, 101>>, <<116, 104, 101, 105, 114>>, <<119, 104, 97, 116>>, <<115, 111>>, <<105, 102>>,
    <<97, 98, 111, 117, 116>>, <<119, 104, 111>>, <<103, 101, 116>>, <<119, 104, 105, 99, 104>>, <<103, 111>>,
    <<119, 104, 101, 110>>, <<99, 97, 110>>, <<110, 111>> >>))
dict_words(l, file_words) == IF l = "ru" THEN load_ru(file_words) ELSE load_en(file_words)

(***************************************************************************)
(* Scorers.  A double is modelled in fixed point: a score x in [0,1] is    *)
(* the integer part of x * SCALE, chi-squared is kept in whole units, and  *)
(* every division truncates.                                               *)
(***************************************************************************)
SCALE == 10000
CHI_EMPTY == 1000000000
CHI_SATURATION == 500

RECURSIVE SumTo(_, _)
SumTo(f, n) == IF n = 0 THEN 0 ELSE f[n] + SumTo(f, n - 1)

letter_indices(cps, l) ==
    LET keep == [i \in 1..Len(cps) |-> idx_fn(l, to_lower(cps[i]))]
    IN  SelectSeq(keep, LAMBDA x : x >= 0)

\* chi += diff * diff / expected, with expected = freq[i] * n; in units of
\* 1/10000 diff is 10000 * counts[i] - F[i] * n, and the term is
\* diff^2 / (10000 * F[i] * n)
chi_squared(idxs, l) ==
    LET n    == Len(idxs)
        sz   == alpha_size(l)
        freq == IF l = "ru" THEN RU_FREQ ELSE EN_FREQ
        counts == [i \in 0..(sz - 1) |-> Cardinality({j \in 1..n : idxs[j] = i})]
        term == [i \in 1..sz |->
                    IF freq[i] * n > 0
                    THEN LET diff == 10000 * counts[i - 1] - freq[i] * n
                             d == (IF diff < 0 THEN -diff ELSE diff) \div 100
                         IN  (d * d) \div (freq[i] * n)
                    ELSE 0]
    IN  IF n = 0 THEN CHI_EMPTY ELSE SumTo(term, sz)

bigram_score(idxs, l) ==
    LET sz    == alpha_size(l)
        table == IF l = "ru" THEN RU_BG_TABLE ELSE EN_BG_TABLE
        total == Len(idxs) - 1
        hits  == Cardinality({i \in 1..total : (idxs[i] * sz + idxs[i + 1]) \in table})
    IN  IF Len(idxs) < 4 THEN 0 ELSE (hits * SCALE) \div total

\* cur is cleared at every codepoint that is not a letter and pushed when the
\* next one comes or the loop ends: the words are the maximal runs of
\* letters, in lower case, of which those of two letters or more are kept
extract_words(cps, l) ==
    LET n       == Len(cps)
        lett    == <<>> \o [i \in 1..n |-> is_letter(l, cps[i])]
        first   == {i \in 1..n : lett[i] /\ (IF i = 1 THEN TRUE ELSE ~lett[i - 1])}
        last(i) == CHOOSE j \in i..n :
                      /\ \A k \in i..j : lett[k]
                      /\ (IF j = n THEN TRUE ELSE ~lett[j + 1])
        kept    == SortedSeq({i \in first : last(i) - i + 1 >= 2})
    IN  <<>> \o [w \in 1..Len(kept) |->
                    utf8_encode([k \in 1..(last(kept[w]) - kept[w] + 1) |->
                                    to_lower(cps[kept[w] + k - 1])])]

str_ends_with(s, suffix) ==
    /\ Len(s) >= Len(suffix)
    /\ SubSeq(s, Len(s) - Len(suffix) + 1, Len(s)) = suffix

normalize_yo(s) ==
    LET cps == utf8_decode(s)
    IN  utf8_encode([i \in 1..Len(cps) |->
            IF cps[i] = 1105 THEN 1077 ELSE IF cps[i] = 1025 THEN 1045 ELSE cps[i]])

min_base(l) == IF l = "en" THEN 2 ELSE 3

\* the loop of stem_word from suffix number k
RECURSIVE stem_loop(_, _, _, _)
stem_loop(word, suffixes, mb, k) ==
    IF k > Len(suffixes) THEN word
    ELSE IF utf8_charlen(word) > utf8_charlen(suffixes[k]) + mb
            /\ str_ends_with(word, suffixes[k])
         THEN SubSeq(word, 1, Len(word) - Len(suffixes[k]))
         ELSE stem_loop(word, suffixes, mb, k + 1)

stem_word(word, l) ==
    stem_loop(word, IF l = "ru" THEN RU_SUFFIXES ELSE EN_SUFFIXES, min_base(l), 1)

\* dict_word with the weight of level 3 taken for level 4 and the reverse
dict_word_swapped(word, dictionary, l) ==
    LET wlen  == utf8_charlen(word)
        no_yo == IF l = "ru" THEN normalize_yo(word) ELSE word
        st    == stem_word(word, l)
        st2   == stem_word(no_yo, l)
    IN  IF word \in dictionary THEN <<1, 10 * wlen>>
        ELSE IF l = "ru" /\ no_yo # word /\ no_yo \in dictionary THEN <<1, 10 * wlen>>
        ELSE IF st # word /\ st \in dictionary THEN <<1, 7 * wlen>>
        ELSE IF l = "ru" /\ st2 # no_yo /\ st2 \in dictionary THEN <<1, 8 * wlen>>
        ELSE <<0, 0>>

\* one pass of the loop of dict_score: <<matches added, match_w added>>,
\* match_w in tenths of a letter
dict_word(word, dictionary, l) ==
    LET wlen  == utf8_charlen(word)
        no_yo == IF l = "ru" THEN normalize_yo(word) ELSE word
        st    == stem_word(word, l)
        st2   == stem_word(no_yo, l)
    IN  IF word \in dictionary THEN <<1, 10 * wlen>>
        ELSE IF l = "ru" /\ no_yo # word /\ no_yo \in dictionary THEN <<1, 10 * wlen>>
        ELSE IF st # word /\ st \in dictionary THEN <<1, 8 * wlen>>
        ELSE IF l = "ru" /\ st2 # no_yo /\ st2 \in dictionary THEN <<1, 7 * wlen>>
        ELSE <<0, 0>>

dict_score(ws, dictionary, l) ==
    LET n       == Len(ws)
        per     == [i \in 1..n |-> dict_word(ws[i], dictionary, l)]
        matches == SumTo([i \in 1..n |-> per[i][1]], n)
        match_w == SumTo([i \in 1..n |-> per[i][2]], n)
        total_w == SumTo([i \in 1..n |-> utf8_charlen(ws[i])], n)
        ratio   == (matches * SCALE) \div n
        weighted == IF total_w > 0 THEN (match_w * SCALE) \div (10 * total_w) ELSE 0
    IN  IF n = 0 THEN [score |-> 0, matches |-> 0, total |-> 0]
        ELSE [score |-> (ratio * 5 + weighted * 5) \div 10, matches |-> matches, total |-> n]

\* the truncation loop that drops a character before its first lookup
stem_hit_after_drop(word, dictionary, l) ==
    LET w   == IF l = "ru" THEN normalize_yo(word) ELSE word
        cps == utf8_decode(stem_word(w, l))
    IN  \E k \in min_base(l)..(Len(cps) - 1) : utf8_encode(SubSeq(cps, 1, k)) \in dictionary

\* whether the truncation loop of stem_dict_score finds the word
stem_hit(word, dictionary, l) ==
    LET w   == IF l = "ru" THEN normalize_yo(word) ELSE word
        cps == utf8_decode(stem_word(w, l))
    IN  \E k \in min_base(l)..Len(cps) : utf8_encode(SubSeq(cps, 1, k)) \in dictionary

stem_dict_score(ws, dictionary, l) ==
    LET hits == Cardinality({i \in 1..Len(ws) : stem_hit(ws[i], dictionary, l)})
    IN  IF Len(ws) = 0 THEN 0 ELSE (hits * SCALE) \div Len(ws)

(***************************************************************************)
(* Analyzer                                                                *)
(***************************************************************************)
letter_count(cps, l) == Cardinality({i \in 1..Len(cps) : is_letter(l, cps[i])})

\* weights whose last band does not add up to 1
weights_short_band_off(n_letters) ==
    IF n_letters >= 100 THEN <<35, 10, 35, 20>>
    ELSE IF n_letters >= 30 THEN <<20, 20, 35, 25>>
    ELSE IF n_letters >= 10 THEN <<10, 30, 35, 25>>
    ELSE <<5, 45, 35, 25>>

\* weights with the top band for more than 100 letters only
weights_over_100(n_letters) ==
    IF n_letters > 100 THEN <<35, 10, 35, 20>>
    ELSE IF n_letters >= 30 THEN <<20, 20, 35, 25>>
    ELSE IF n_letters >= 10 THEN <<10, 30, 35, 25>>
    ELSE <<5, 45, 30, 20>>

\* <<w_chi, w_bg, w_dict, w_stem>> in hundredths
weights(n_letters) ==
    IF n_letters >= 100 THEN <<35, 10, 35, 20>>
    ELSE IF n_letters >= 30 THEN <<20, 20, 35, 25>>
    ELSE IF n_letters >= 10 THEN <<10, 30, 35, 25>>
    ELSE <<5, 45, 30, 20>>

chi_norm(chi) ==
    IF chi >= CHI_SATURATION THEN 0 ELSE SCALE - ((chi * SCALE) \div CHI_SATURATION)

combine_scores(chi, bg, ds, ss, n_letters) ==
    LET w == weights(n_letters)
    IN  (w[1] * chi_norm(chi) + w[2] * bg + w[3] * ds + w[4] * ss) \div 100

analyze_shift(t, k, l, dictionary) ==
    LET d       == decrypt(t, k, l)
        dec_cps == utf8_decode(d)
        idxs    == letter_indices(dec_cps, l)
        ws      == extract_words(dec_cps, l)
        chi     == chi_squared(idxs, l)
        bg      == bigram_score(idxs, l)
        dsr     == dict_score(ws, dictionary, l)
        ss      == stem_dict_score(ws, dictionary, l)
        lc      == letter_count(dec_cps, l)
    IN  [shift |-> k, text |-> d, chi_sq |-> chi, bigram_sc |-> bg,
         dict_sc |-> dsr.score, stem_sc |-> ss,
         combined |-> combine_scores(chi, bg, dsr.score, ss, lc),
         matches |-> dsr.matches, total_words |-> dsr.total]

\* ShiftResult::confidence, in percent times SCALE
confidence(r) == Min(r.combined * 100, 100 * SCALE)

(***************************************************************************)
(* find_boundaries                                                         *)
(* Positions and ranges are 0-based as in the code; a vector v is the      *)
(* sequence whose element v[i] of the code is v[i + 1].                    *)
(***************************************************************************)
SMOOTH_RADIUS == 7
MIN_SEGMENT == 15

\* The keys that can come out of the smoothing loop at position i: the loop
\* over the unordered_map keeps the first key, in the map's iteration order,
\* whose count is the largest (v > mode_cnt is strict and mode_cnt starts at 0,
\* so the initial mode = smap[i] never survives); the iteration order is
\* unspecified, so every key with the largest count is a possible outcome.
mode_set(sm, i) ==
    LET n      == Len(sm)
        start  == Max(0, i - SMOOTH_RADIUS)
        end_   == Min(n, i + SMOOTH_RADIUS + 1)
        keys   == {sm[j + 1] : j \in start..(end_ - 1)}
        cnt(k) == Cardinality({j \in start..(end_ - 1) : sm[j + 1] = k})
    IN  {k \in keys : \A k2 \in keys : cnt(k2) <= cnt(k)}

\* all vectors the smoothing loop can produce for positions lo..hi-1
RECURSIVE smoothings_range(_, _, _)
smoothings_range(sm, lo, hi) ==
    IF hi <= lo THEN {<<>>}
    ELSE IF hi - lo = 1 THEN {<<k>> : k \in mode_set(sm, lo)}
    ELSE LET mid == (lo + hi) \div 2
         IN  {a \o b : a \in smoothings_range(sm, lo, mid),
                       b \in smoothings_range(sm, mid, hi)}

\* all vectors the smoothing loop can produce for positions 0..i-1
smoothings(sm, i) == smoothings_range(sm, 0, i)

\* the loop that cuts the smoothed vector where the key changes: cur is the
\* key of the position before i, so a range ends at every i (0-based, from 1)
\* whose key differs from the one before it, and the last range ends at n
change_points(sd) ==
    LET n    == Len(sd)
        cuts == SortedSeq({i \in 1..(n - 1) : sd[i + 1] # sd[i]})
        m    == Len(cuts)
    IN  [b \in 1..(m + 1) |->
            <<IF b = 1 THEN 0 ELSE cuts[b - 1], IF b = m + 1 THEN n ELSE cuts[b]>>]

\* the merge loop that drops a short range instead of widening its neighbour
RECURSIVE merge_small_drop(_, _)
merge_small_drop(bounds, acc) ==
    IF bounds = <<>> THEN acc
    ELSE LET b == Head(bounds) IN
         IF b[2] - b[1] < MIN_SEGMENT /\ acc # <<>>
         THEN merge_small_drop(Tail(bounds), acc)
         ELSE merge_small_drop(Tail(bounds), Append(acc, b))

\* the merge loop: a range shorter than 15 widens the last merged range,
\* unless nothing has been merged yet
RECURSIVE merge_small(_, _)
merge_small(bounds, acc) ==
    IF bounds = <<>> THEN acc
    ELSE LET b == Head(bounds) IN
         IF b[2] - b[1] < MIN_SEGMENT /\ acc # <<>>
         THEN merge_small(Tail(bounds),
                          [acc EXCEPT ![Len(acc)] = <<acc[Len(acc)][1], b[2]>>])
         ELSE merge_small(Tail(bounds), Append(acc, b))

\* find_boundaries once the smoothed vector sd is fixed
boundaries_of(sd, text_len) ==
    IF Len(sd) = 0 THEN <<<<0, text_len>>>>
    ELSE LET m == merge_small(<<>> \o change_points(sd), <<>>)
         IN  IF m = <<>> THEN <<<<0, text_len>>>> ELSE m

(***************************************************************************)
(* split_by_language                                                       *)
(***************************************************************************)
BACKOFF == 10

SubVec(v, from, to) == [k \in 1..(to - from) |-> v[from + k]]

is_space(c) == c = 32 \/ c = 10 \/ c = 9

\* the backward search that cuts at the whitespace instead of after it
RECURSIVE split_point_at_space(_, _, _, _)
split_point_at_space(cps, j, low, i) ==
    IF j < low THEN i
    ELSE IF is_space(cps[j + 1]) THEN j
    ELSE split_point_at_space(cps, j - 1, low, i)

\* the backward search for a word boundary before position i (0-based)
RECURSIVE split_point(_, _, _, _)
split_point(cps, j, low, i) ==
    IF j < low THEN i
    ELSE IF is_space(cps[j + 1]) THEN j + 1
    ELSE split_point(cps, j - 1, low, i)

\* LangSegment whose text is copied from cps.begin() instead of cps.begin() + cur_start
LangSegment_from_begin(cps, l, from, to) ==
    [text |-> utf8_encode(SubVec(cps, 0, to)), lang |-> l, start |-> from, end |-> to]

LangSegment(cps, l, from, to) ==
    [text |-> utf8_encode(SubVec(cps, from, to)), lang |-> l, start |-> from, end |-> to]

\* the main loop from position i; cur_lang = "" is the empty string
RECURSIVE split_loop(_, _, _, _, _)
split_loop(cps, i, cur_lang, cur_start, segments) ==
    IF i >= Len(cps)
    THEN IF cur_start < Len(cps) /\ cur_lang # ""
         THEN Append(segments, LangSegment(cps, cur_lang, cur_start, Len(cps)))
         ELSE segments
    ELSE LET c   == cps[i + 1]
             det == IF is_ru(c) THEN "ru" ELSE IF is_en(c) THEN "en" ELSE ""
         IN  IF det = "" THEN split_loop(cps, i + 1, cur_lang, cur_start, segments)
             ELSE IF cur_lang = "" THEN split_loop(cps, i + 1, det, cur_start, segments)
             ELSE IF det # cur_lang
                  THEN LET split_at == split_point(cps, i - 1, Max(i - BACKOFF, cur_start), i)
                           segs2 == IF split_at > cur_start
                                    THEN Append(segments,
                                                LangSegment(cps, cur_lang, cur_start, split_at))
                                    ELSE segments
                       IN  split_loop(cps, i + 1, det, split_at, segs2)
             ELSE split_loop(cps, i + 1, cur_lang, cur_start, segments)

\* split_by_language without the fallback segment of line 747
split_by_language_no_fallback(t) ==
    IF t = <<>> THEN <<>> ELSE split_loop(utf8_decode(t), 0, "", 0, <<>>)

split_by_language(t) ==
    IF t = <<>> THEN <<>>
    ELSE LET cps == utf8_decode(t)
             segments == split_loop(cps, 0, "", 0, <<>>)
         IN  IF segments = <<>>
             THEN <<[text |-> t, lang |-> "ru", start |-> 0, end |-> Len(cps)]>>
             ELSE segments

(***************************************************************************)
(* crack                                                                   *)
(***************************************************************************)
\* the loop of crack: one ShiftResult per shift 0..sz-1 (element s + 1 is
\* the result for shift s); the concatenation makes the vector explicit
analyze_all(t, l, dictionary) ==
    <<>> \o [i \in 1..alpha_size(l) |-> analyze_shift(t, i - 1, l, dictionary)]

\* std::sort with the comparator turned round (ascending combined score)
sort_results_ascending(rs, tie) ==
    LET n       == Len(rs)
        comb    == <<>> \o [i \in 1..n |-> rs[i].combined]
        key(i)  == (i - 1 - tie) % n
        rank    == <<>> \o [i \in 1..n |-> Cardinality({j \in 1..n :
                       \/ comb[j] < comb[i]
                       \/ (comb[j] = comb[i] /\ key(j) < key(i))})]
    IN  [p \in 1..n |-> rs[CHOOSE i \in 1..n : rank[i] = p - 1]]

\* std::sort with the comparator a.combined > b.combined.  std::sort is not
\* stable: results with equal combined score come out in an unspecified
\* order.  The order among equals is the one of (shift - tie) mod sz, where
\* tie is chosen by the caller, so that each of several equal results can be
\* the first one.
sort_results(rs, tie) ==
    LET n       == Len(rs)
        comb    == <<>> \o [i \in 1..n |-> rs[i].combined]
        key(i)  == (i - 1 - tie) % n
        rank    == <<>> \o [i \in 1..n |-> Cardinality({j \in 1..n :
                       \/ comb[j] > comb[i]
                       \/ (comb[j] = comb[i] /\ key(j) < key(i))})]
    IN  [p \in 1..n |-> rs[CHOOSE i \in 1..n : rank[i] = p - 1]]

\* crack that gives up when no result has a letter to score
crack_sorted_no_letters(rs, tie) ==
    IF \A i \in 1..Len(rs) : rs[i].chi_sq = CHI_EMPTY THEN <<>> ELSE sort_results(rs, tie)

\* crack after its loop: rs is the vector the loop filled
crack_sorted(rs, tie) == sort_results(rs, tie)

crack(t, l, dictionary, tie) == crack_sorted(analyze_all(t, l, dictionary), tie)

\* the language with more letters in the text, "en" when equal
detect_language(t) ==
    LET cps == utf8_decode(t)
        ru  == Cardinality({i \in 1..Len(cps) : is_ru(cps[i])})
        en  == Cardinality({i \in 1..Len(cps) : ~is_ru(cps[i]) /\ is_en(cps[i])})
    IN  IF ru > en THEN "ru" ELSE "en"

(***************************************************************************)
(* is_plaintext                                                            *)
(***************************************************************************)
\* the index of coincidence as the fraction num / den (ic += c * (c - 1),
\* then ic / (n * (n - 1))); 0 / 1 when there are fewer than two letters
index_of_coincidence(idxs, l) ==
    LET n      == Len(idxs)
        sz     == alpha_size(l)
        counts == [i \in 0..(sz - 1) |-> Cardinality({j \in 1..n : idxs[j] = i})]
        ic     == SumTo([i \in 1..sz |-> counts[i - 1] * (counts[i - 1] - 1)], sz)
    IN  IF n < 2 THEN [num |-> 0, den |-> 1] ELSE [num |-> ic, den |-> n * (n - 1)]

\* the least number of letters for the index of coincidence to be looked at
PLAIN_MIN_LETTERS == 30

\* ic_thresh in thousandths: 0.045 for ru, 0.055 for en
ic_thresh(l) == IF l = "ru" THEN 45 ELSE 55

\* is_plaintext that asks for more than 30 letters
is_plaintext_over_30(t, dictionary) ==
    LET l     == detect_language(t)
        cs    == utf8_decode(t)
        r     == dict_score(extract_words(cs, l), dictionary, l)
        idxs  == letter_indices(cs, l)
        ic    == index_of_coincidence(idxs, l)
    IN  IF r.total > 0 /\ 10 * r.matches >= 7 * r.total THEN TRUE
        ELSE IF Len(idxs) > PLAIN_MIN_LETTERS
             THEN ic.num * 1000 > ic_thresh(l) * ic.den /\ r.score > (4 * SCALE) \div 10
        ELSE FALSE

\* is_plaintext; dictionary is g_dict.words of the detected language
is_plaintext(t, dictionary) ==
    LET l     == detect_language(t)
        cs    == utf8_decode(t)
        r     == dict_score(extract_words(cs, l), dictionary, l)
        idxs  == letter_indices(cs, l)
        ic    == index_of_coincidence(idxs, l)
    IN  IF r.total > 0 /\ 10 * r.matches >= 7 * r.total THEN TRUE
        ELSE IF Len(idxs) >= PLAIN_MIN_LETTERS
             THEN ic.num * 1000 > ic_thresh(l) * ic.den /\ r.score > (4 * SCALE) \div 10
        ELSE FALSE

(***************************************************************************)
(* detect_mixed                                                            *)
(***************************************************************************)
WINDOW_SIZE == 40

\* the inner loop of compute_shift_map: the first key with the best score
\* sc = bg * 0.6 + max(0, 1 - chi / 500) * 0.4 (here times 10)
best_shift(win_str, l) ==
    LET sz == alpha_size(l)
        sc == <<>> \o [i \in 1..sz |->
                  LET idxs == letter_indices(utf8_decode(decrypt(win_str, i - 1, l)), l)
                  IN  bigram_score(idxs, l) * 6 + chi_norm(chi_squared(idxs, l)) * 4]
    IN  (CHOOSE i \in 1..sz :
            /\ \A j \in 1..sz : sc[j] <= sc[i]
            /\ \A j \in 1..(i - 1) : sc[j] < sc[i]) - 1

\* one pass of the outer loop of compute_shift_map at position i (0-based):
\* the key pushed for a letter, -1 where the loop copies smap.back()
shift_at(cps, i, l) ==
    IF ~is_letter(l, cps[i + 1]) THEN -1
    ELSE LET half_w == WINDOW_SIZE \div 2
             start  == Max(0, i - half_w)
             end_   == Min(Len(cps), i + half_w)
         IN  best_shift(utf8_encode(<<>> \o SubVec(cps, start, end_)), l)

\* the vector the loop builds: a position that is not a letter repeats the
\* last pushed key, which is the key of the nearest letter before it, or 0
\* when the vector is still empty or holds only such copies of 0
compute_shift_map(t, l) ==
    LET cps == utf8_decode(t)
        n   == Len(cps)
        own == <<>> \o [i \in 1..n |-> shift_at(cps, i - 1, l)]
        before(i) == {j \in 1..i : own[j] >= 0}
    IN  <<>> \o [i \in 1..n |->
            IF before(i) = {} THEN 0
            ELSE own[CHOOSE j \in before(i) : \A j2 \in before(i) : j2 <= j]]

\* results[0]; of an empty vector it is undefined, shown as a result with
\* shift -1
UndefinedResult ==
    [shift |-> -1, text |-> <<>>, chi_sq |-> 0, bigram_sc |-> 0, dict_sc |-> 0,
     stem_sc |-> 0, combined |-> 0, matches |-> 0, total_words |-> 0]
front(rs) == IF Len(rs) = 0 THEN UndefinedResult ELSE rs[1]

\* Segment{results[0].text, s, e, results[0]}
Segment(best, s, e) == [text |-> best.text, start |-> s, end |-> e, best |-> best]

\* the shift map detect_mixed computes: none on the short path
mixed_shift_map(t) ==
    LET l == detect_language(t)
    IN  IF letter_count(utf8_decode(t), l) < WINDOW_SIZE * 2 THEN <<>>
        ELSE compute_shift_map(t, l)

\* the ranges detect_mixed cracks, sd being the smoothed shift map: the whole
\* text, with its end in bytes, on the short path
mixed_bounds(t, sd) ==
    LET cps == utf8_decode(t)
    IN  IF letter_count(cps, detect_language(t)) < WINDOW_SIZE * 2
        THEN <<<<0, Len(t)>>>>
        ELSE boundaries_of(sd, Len(cps))

\* the text handed to crack for the range b
mixed_text(t, b) ==
    LET cps == utf8_decode(t)
    IN  IF letter_count(cps, detect_language(t)) < WINDOW_SIZE * 2 THEN t
        ELSE utf8_encode(<<>> \o SubVec(cps, b[1], Min(b[2], Len(cps))))

\* the vectors the loops of crack fill, one per range
mixed_results(t, dictionary, sd) ==
    LET bounds == mixed_bounds(t, sd)
    IN  <<>> \o [b \in 1..Len(bounds) |->
                    analyze_all(mixed_text(t, bounds[b]), detect_language(t), dictionary)]

\* detect_mixed after the loops of crack: rss[b] is the unsorted vector of
\* range b, tie the order std::sort leaves equal results in
detect_mixed_sorted(t, sd, rss, tie) ==
    LET bounds == mixed_bounds(t, sd)
    IN  [b \in 1..Len(bounds) |->
            Segment(front(crack_sorted(rss[b], tie)), bounds[b][1], bounds[b][2])]

\* detect_mixed once the smoothing (sd, one of smoothings) and the order of
\* equal results (tie) are fixed
detect_mixed(t, dictionary, sd, tie) ==
    detect_mixed_sorted(t, sd, mixed_results(t, dictionary, sd), tie)

(***************************************************************************)
(* Inputs                                                                  *)
(***************************************************************************)
Langs == {"ru", "en"}

\* every letter of both alphabets, both cases
AllLetters == (1040..1103) \cup {1025, 1105} \cup (65..90) \cup (97..122)

\* "Khoor zruog"
Khoor == <<75, 104, 111, 111, 114, 32, 122, 114, 117, 111, 103>>
\* "Hello world"
Hello == <<72, 101, 108, 108, 111, 32, 119, 111, 114, 108, 100>>

\* 'a', euro sign, U+1F600, Ya, '1', space, 'Z', yo, tab
PassText == <<97, 8364, 128512, 1071, 49, 32, 90, 1105, 9>>

\* the short texts are over a, z, K, Z, a-ru, e-ru, yo, ya, A-ru, Yo, Ya,
\* space, '1', '!'
DecryptTexts ==
    SeqsUpTo({97, 122, 75, 90, 1072, 1077, 1105, 1103, 1040, 1025, 1071, 32, 49, 33}, MaxLen)
        \cup {<<c>> : c \in AllLetters} \cup {Khoor, PassText}

(***************************************************************************)
(* decrypt as a state machine: decrypt with k, then with size - k          *)
(***************************************************************************)
InitDecrypt ==
    /\ pc = "start"
    /\ text \in {utf8_encode(t) : t \in DecryptTexts}
    /\ lang \in Langs
    /\ dict_file = {}
    /\ NoAux /\ NoDecrypt /\ NoBounds /\ NoSplit /\ NoScores

Decrypt ==
    /\ pc = "start"
    /\ \E k \in 0..(alpha_size(lang) - 1) :
          /\ shift' = k
          /\ dec' = decrypt(text, k, lang)
    /\ pc' = "decrypted"
    /\ UNCHANGED <<text, lang, back, boundVars, lsegs, dict_file, scoreVars, auxVars>>

DecryptBack ==
    /\ pc = "decrypted"
    /\ back' = decrypt(dec, (alpha_size(lang) - shift) % alpha_size(lang), lang)
    /\ pc' = "restored"
    /\ UNCHANGED <<text, lang, shift, dec, boundVars, lsegs, dict_file, scoreVars, auxVars>>

NextDecrypt == Decrypt \/ DecryptBack

SpecDecrypt == InitDecrypt /\ [][NextDecrypt]_vars

(***************************************************************************)
(* Properties of decrypt                                                   *)
(***************************************************************************)
\* the alphabets in alphabet order, as the properties speak of them
RuLower == [i \in 1..33 |-> IF i <= 6 THEN 1071 + i ELSE IF i = 7 THEN 1105 ELSE 1070 + i]
RuUpper == [i \in 1..33 |-> IF i <= 6 THEN 1039 + i ELSE IF i = 7 THEN 1025 ELSE 1038 + i]
EnLower == [i \in 1..26 |-> 96 + i]
EnUpper == [i \in 1..26 |-> 64 + i]
LowerOf(l) == IF l = "ru" THEN RuLower ELSE EnLower
UpperOf(l) == IF l = "ru" THEN RuUpper ELSE EnUpper
InSeq(sq, c) == \E i \in 1..Len(sq) : sq[i] = c
PosIn(sq, c) == CHOOSE i \in 1..Len(sq) : sq[i] = c
IsLetterOf(l, c) == InSeq(LowerOf(l), c) \/ InSeq(UpperOf(l), c)
\* the letter (i - k) mod size places along the alphabet c belongs to, same case
Shifted(l, c, k) ==
    LET tab == IF InSeq(UpperOf(l), c) THEN UpperOf(l) ELSE LowerOf(l)
    IN  tab[((PosIn(tab, c) - 1 - k) % Len(tab)) + 1]
HasLetterOf(l, t) == \E i \in 1..Len(utf8_decode(t)) : IsLetterOf(l, utf8_decode(t)[i])

\* C1: decrypting with k and then with (size - k) mod size gives the text back,
\* for every text, language and shift k in 0..size-1.
C1_RoundTrip == pc = "restored" => back = text

C1_Witness ==
    /\ pc = "restored" /\ shift > 0 /\ back = text /\ dec # text
    /\ \E i \in 1..Len(utf8_decode(text)) : utf8_decode(text)[i] \in {1105, 1025}

\* C20: decrypt returns as many codepoints as it was given; a codepoint that
\* is not a letter of the language (punctuation, digit, whitespace, letter of
\* the other language) is unchanged at its position, and the positions that
\* hold letters of the language are the same in the input and in the result.
C20_PassThrough ==
    pc = "decrypted" =>
        LET inp == utf8_decode(text)
            out == utf8_decode(dec)
        IN  /\ Len(out) = Len(inp)
            /\ \A i \in 1..Len(inp) :
                  /\ IsLetterOf(lang, inp[i]) <=> IsLetterOf(lang, out[i])
                  /\ ~IsLetterOf(lang, inp[i]) => out[i] = inp[i]

\* a text of letters of both languages, a digit, whitespace and symbols of
\* three and four bytes decrypted in ru with a shift that is not 0
C20_Witness ==
    /\ pc = "decrypted" /\ lang = "ru" /\ shift = 5
    /\ text = utf8_encode(PassText)
    /\ dec # text
    /\ utf8_decode(dec)[1] = 97 /\ utf8_decode(dec)[3] = 128512

\* C7: every letter of the language at alphabet index i becomes the letter at
\* index (i - k) mod size in the same case, and "Khoor zruog" decrypted in
\* English with shift 3 is "Hello world".
C7_LetterMapping ==
    pc = "decrypted" =>
        LET cps == utf8_decode(text)
            out == utf8_decode(dec)
        IN  /\ Len(out) = Len(cps)
            /\ \A i \in 1..Len(cps) :
                  IsLetterOf(lang, cps[i]) => out[i] = Shifted(lang, cps[i], shift)
            /\ (text = utf8_encode(Khoor) /\ lang = "en" /\ shift = 3)
                  => dec = utf8_encode(Hello)

C7_Witness ==
    /\ pc = "decrypted" /\ text = utf8_encode(Khoor) /\ lang = "en" /\ shift = 3
    /\ dec = utf8_encode(Hello)

\* C8: decrypt with shift 0 returns the text unchanged, for every text and
\* language.
C8_IdentityShift == (pc = "decrypted" /\ shift = 0) => dec = text

C8_Witness ==
    /\ pc = "decrypted" /\ shift = 0 /\ lang = "ru" /\ dec = text
    /\ text = utf8_encode(<<1025, 1105>>)

(***************************************************************************)
(* find_boundaries as a state machine: a shift map is built run by run,    *)
(* then find_boundaries is applied to it with text_len = its length        *)
(***************************************************************************)
\* the number of runs of equal keys in a shift map
RunCount(sm) == Cardinality({i \in 1..Len(sm) : i = 1 \/ sm[i] # sm[i - 1]})

InitBounds ==
    /\ pc = "build"
    /\ text = <<>> /\ lang = "en" /\ dict_file = {}
    /\ NoAux /\ NoDecrypt /\ NoBounds /\ NoSplit /\ NoScores

AppendRun ==
    /\ pc = "build"
    /\ RunCount(smap) < MaxRuns
    /\ \E v \in {0, 1}, len \in 1..(MaxMapLen - Len(smap)) :
          /\ (IF smap = <<>> THEN TRUE ELSE smap[Len(smap)] # v)
          /\ smap' = smap \o [i \in 1..len |-> v]
    /\ UNCHANGED <<pc, text, lang, decryptVars, smoothed, merged, lsegs, dict_file, scoreVars, auxVars>>

FindBoundaries ==
    /\ pc = "build"
    /\ \E sd \in smoothings(smap, Len(smap)) :
          /\ smoothed' = sd
          /\ merged' = boundaries_of(sd, Len(smap))
    /\ pc' = "bounds"
    /\ UNCHANGED <<text, lang, decryptVars, smap, lsegs, dict_file, scoreVars, auxVars>>

NextBounds == AppendRun \/ FindBoundaries

SpecBounds == InitBounds /\ [][NextBounds]_vars

(***************************************************************************)
(* Properties of find_boundaries                                           *)
(***************************************************************************)
\* C2: for a non-empty shift map of length n the returned ranges are ordered,
\* none is empty, the first starts at 0, each starts where the previous one
\* ends and the last ends at n.
C2_Coverage ==
    (pc = "bounds" /\ Len(smap) > 0) =>
        /\ Len(merged) >= 1
        /\ merged[1][1] = 0
        /\ merged[Len(merged)][2] = Len(smap)
        /\ \A i \in 1..Len(merged) : merged[i][1] < merged[i][2]
        /\ \A i \in 1..(Len(merged) - 1) : merged[i + 1][1] = merged[i][2]

C2_Witness ==
    /\ pc = "bounds" /\ Len(merged) = 2 /\ Len(smap) = MaxMapLen
    /\ \E i \in 1..Len(smoothed) : smoothed[i] # smap[i]
    /\ merged[1][2] = merged[2][1] /\ merged[1][1] = 0 /\ merged[2][2] = Len(smap)

\* C3 (as claimed): no returned range is shorter than 15, except the single
\* whole-map range of a map shorter than 15.
C3_MinLength_Claimed ==
    pc = "bounds" =>
        \A i \in 1..Len(merged) :
            merged[i][2] - merged[i][1] < MIN_SEGMENT
                => (Len(merged) = 1 /\ Len(smap) < MIN_SEGMENT)

(***************************************************************************)
(* split_by_language as a state machine                                    *)
(***************************************************************************)
\* texts with a language change at a position past 10; b is U+0431:
\* "a aaaaaaaaab" (the space 10 before b), "a aaaaaaaaaab" (11 before),
\* "aa,aaaaaaaaab" (no whitespace), "aa\tb", "a\nZb aZ", "bbbbbbbbbbbb a1 b"
SplitPhrases ==
    {<<97, 32>> \o [k \in 1..9 |-> 97] \o <<1073>>,
     <<97, 32>> \o [k \in 1..10 |-> 97] \o <<1073>>,
     <<97, 97, 44>> \o [k \in 1..9 |-> 97] \o <<1073>>,
     <<97, 97, 9, 1073>>,
     <<97, 10, 90, 1073, 32, 97, 90>>,
     [k \in 1..12 |-> 1073] \o <<32, 97, 49, 32, 1073>>}

\* the short texts are over a, Z, b-ru, Yo, space, '1', ','
InitSplit ==
    /\ pc = "start"
    /\ text \in {utf8_encode(t) :
                  t \in SeqsUpTo({97, 90, 1073, 1025, 32, 49, 44}, MaxSplitLen) \cup SplitPhrases}
    /\ lang = "en" /\ dict_file = {}
    /\ NoAux /\ NoDecrypt /\ NoBounds /\ NoSplit /\ NoScores

SplitByLanguage ==
    /\ pc = "start"
    /\ lsegs' = split_by_language(text)
    /\ pc' = "split"
    /\ UNCHANGED <<text, lang, decryptVars, boundVars, dict_file, scoreVars, auxVars>>

NextSplit == SplitByLanguage

SpecSplit == InitSplit /\ [][NextSplit]_vars

(***************************************************************************)
(* Properties of split_by_language                                         *)
(***************************************************************************)
RuLetters(t) == {i \in 1..Len(utf8_decode(t)) : IsLetterOf("ru", utf8_decode(t)[i])}
EnLetters(t) == {i \in 1..Len(utf8_decode(t)) : IsLetterOf("en", utf8_decode(t)[i])}
NoLetters(t) == RuLetters(t) = {} /\ EnLetters(t) = {}
OneLanguage(t) == (RuLetters(t) = {}) # (EnLetters(t) = {})

\* C9 (as claimed): no segments for any text without a Russian or English
\* letter, and exactly one segment when all letters belong to one language.
C9_Degenerate_Claimed ==
    pc = "split" =>
        /\ NoLetters(text) => lsegs = <<>>
        /\ OneLanguage(text) => Len(lsegs) = 1

\* C9 (amended): no segments for the empty text; for a non-empty text without
\* a Russian or English letter exactly one segment, tagged "ru", holding the
\* whole text from 0 to its codepoint count; exactly one segment when the text
\* has letters and they all belong to one language.
C9_Degenerate ==
    pc = "split" =>
        /\ text = <<>> => lsegs = <<>>
        /\ (text # <<>> /\ NoLetters(text)) =>
              lsegs = <<[text |-> text, lang |-> "ru", start |-> 0,
                         end |-> Len(utf8_decode(text))]>>
        /\ OneLanguage(text) => Len(lsegs) = 1

C9_Witness ==
    /\ pc = "split" /\ text = utf8_encode(<<49, 32, 44>>)
    /\ Len(lsegs) = 1 /\ lsegs[1].lang = "ru" /\ lsegs[1].end = 3

(***************************************************************************)
(* dict_score as a state machine: a dictionary is loaded (the built-in     *)
(* words and the words of a file, if one was found), then a word list is   *)
(* scored                                                                  *)
(***************************************************************************)
\* words a dictionary file may hold: "walk"; "zvezd", "gorod" (in Cyrillic)
DictFiles(l) ==
    {{},
     IF l = "ru" THEN {utf8_encode(<<1079, 1074, 1077, 1079, 1076>>), utf8_encode(<<1075, 1086, 1088, 1086, 1076>>)}
     ELSE {utf8_encode(<<119, 97, 108, 107>>)}}

\* words to score.  en: "say", "saying", "walks", "xq", "the";
\* ru: "vse", "vs(yo)", "zv(yo)zdami", "byt'om", "gorodami", "shchshch"
ScoreWords(l) ==
    IF l = "ru"
    THEN {utf8_encode(w) : w \in {<<1074, 1089, 1077>>, <<1074, 1089, 1105>>,
                                  <<1079, 1074, 1105, 1079, 1076, 1072, 1084, 1080>>,
                                  <<1073, 1099, 1090, 1100, 1086, 1084>>,
                                  <<1075, 1086, 1088, 1086, 1076, 1072, 1084, 1080>>, <<1097, 1097>>}}
    ELSE {utf8_encode(w) : w \in {<<115, 97, 121>>, <<115, 97, 121, 105, 110, 103>>,
                                  <<119, 97, 108, 107, 115>>, <<120, 113>>, <<116, 104, 101>>}}

InitDict ==
    /\ pc = "start"
    /\ text = <<>>
    /\ lang \in Langs
    /\ dict_file \in DictFiles(lang)
    /\ words \in SeqsUpTo(ScoreWords(lang), MaxWords)
    /\ dres = <<>> /\ results = <<>> /\ segs = <<>>
    /\ NoAux /\ NoDecrypt /\ NoBounds /\ NoSplit

DictScore ==
    /\ pc = "start"
    /\ dres' = dict_score(words, dict_words(lang, dict_file), lang)
    /\ pc' = "scored"
    /\ UNCHANGED <<text, lang, decryptVars, boundVars, lsegs, dict_file, words, results, segs, auxVars>>

NextDict == DictScore

SpecDict == InitDict /\ [][NextDict]_vars

(***************************************************************************)
(* Properties of dict_score                                                *)
(***************************************************************************)
\* the first of the four lookups that succeeds for word w (0: none)
C6_Level(w, D, l) ==
    IF w \in D THEN 1
    ELSE IF l = "ru" /\ normalize_yo(w) \in D THEN 2
    ELSE IF stem_word(w, l) \in D THEN 3
    ELSE IF l = "ru" /\ stem_word(normalize_yo(w), l) \in D THEN 4
    ELSE 0
\* tenths of the letter length a match at each level adds
C6_Tenths(level) == CASE level = 1 -> 10 [] level = 2 -> 10 [] level = 3 -> 8
                      [] level = 4 -> 7 [] OTHER -> 0
C6_Letters(w) == Len(utf8_decode(w))

\* C6: per word the lookups are tried in the order exact, yo-normalized (ru),
\* suffix-stripped, normalized and stripped, stopping at the first success; a
\* match adds 1.0, 1.0, 0.8 or 0.7 times the word's letter length, and the
\* score is 0.5 * matched / words + 0.5 * accumulator / total letters.
C6_DictScore ==
    (pc = "scored" /\ Len(words) > 0) =>
        LET D       == dict_words(lang, dict_file)
            n       == Len(words)
            level   == [i \in 1..n |-> C6_Level(words[i], D, lang)]
            matched == Cardinality({i \in 1..n : level[i] > 0})
            acc     == SumTo([i \in 1..n |-> C6_Tenths(level[i]) * C6_Letters(words[i])], n)
            letters == SumTo([i \in 1..n |-> C6_Letters(words[i])], n)
        IN  /\ dres.matches = matched
            /\ dres.total = n
            /\ dres.score =
                  (((matched * SCALE) \div n) * 5 + ((acc * SCALE) \div (10 * letters)) * 5)
                      \div 10

\* all four levels and a miss occur in one scored list
C6_Witness ==
    /\ pc = "scored" /\ lang = "ru" /\ Len(words) = 3
    /\ {C6_Level(words[i], dict_words(lang, dict_file), lang) : i \in 1..3} = {2, 3, 4}
    /\ dres.matches = 3 /\ dres.score < SCALE

(***************************************************************************)
(* crack as a state machine: the dictionary of the language is loaded,     *)
(* then crack is applied to the text                                       *)
(***************************************************************************)
\* the alphabet of the short texts of crack: t, h, A, space, '7', o-ru, N-ru

\* "that", "Wkdw lv", "that walks", "on i ona", "Rq l rqd" (ru, shifted by 3),
\* "Khoor zruog"
CrackPhrases ==
    {<<116, 104, 97, 116>>, <<87, 107, 100, 119, 32, 108, 118>>,
     <<116, 104, 97, 116, 32, 119, 97, 108, 107, 115>>,
     <<1086, 1085, 32, 1080, 32, 1086, 1085, 1072>>,
     <<1088, 1089, 32, 1083, 32, 1088, 1089, 1075>>,
     Khoor}

\* texts at the edges of the letter-count bands, the English ones under key
\* 3: 29 and 30 letters ("the weather is nice today and we are", then " g"),
\* 99 and 100 letters (the same sentence continued: "... going to walk in the
\* park where all the other children are waiting for the rain to end t", "h"),
\* and 30 Russian letters (byt' oni eto and two words of 10 letters)
Band100Text ==
    <<119, 107, 104, 32, 122, 104, 100, 119, 107, 104, 117, 32, 108, 118,
      32, 113, 108, 102, 104, 32, 119, 114, 103, 100, 98, 32, 100, 113, 103,
      32, 122, 104, 32, 100, 117, 104, 32, 106, 114, 108, 113, 106, 32, 119,
      114, 32, 122, 100, 111, 110, 32, 108, 113, 32, 119, 107, 104, 32, 115,
      100, 117, 110, 32, 122, 107, 104, 117, 104, 32, 100, 111, 111, 32,
      119, 107, 104, 32, 114, 119, 107, 104, 117, 32, 102, 107, 108, 111,
      103, 117, 104, 113, 32, 100, 117, 104, 32, 122, 100, 108, 119, 108,
      113, 106, 32, 105, 114, 117, 32, 119, 107, 104, 32, 117, 100, 108,
      113, 32, 119, 114, 32, 104, 113, 103, 32, 119, 107>>

BandTexts ==
    {SubSeq(Band100Text, 1, n) : n \in {36, 38, 125, 126}} \cup
    {<<1073, 1099, 1090, 1100, 32, 1086, 1085, 1080, 32, 1101, 1090, 1086,
      32, 1097, 1097, 1097, 1094, 1072, 1074, 1075, 1076, 1077, 1078, 32,
      1097, 1097, 1097, 1094, 1094, 1079, 1081, 1082, 1083, 1084>>}

CrackTexts == SeqsUpTo({116, 104, 65, 32, 55, 1086, 1053}, MaxCrackLen) \cup CrackPhrases \cup BandTexts

InitCrack ==
    /\ pc = "start"
    /\ text \in {utf8_encode(t) : t \in CrackTexts}
    /\ lang \in Langs
    /\ dict_file \in DictFiles(lang)
    /\ NoAux /\ NoDecrypt /\ NoBounds /\ NoSplit /\ NoScores

Crack ==
    /\ pc = "start"
    /\ \E rs \in {analyze_all(text, lang, dict_words(lang, dict_file))} :
          \E tie \in 0..(alpha_size(lang) - 1) : results' = crack_sorted(rs, tie)
    /\ pc' = "cracked"
    /\ UNCHANGED <<text, lang, decryptVars, boundVars, lsegs, dict_file, words, dres, segs, auxVars>>

NextCrack == Crack

SpecCrack == InitCrack /\ [][NextCrack]_vars

(***************************************************************************)
(* Properties of crack                                                     *)
(***************************************************************************)
\* C4: crack returns size(p) results whose shifts are a permutation of
\* 0..size(p)-1, each with the text decrypt gives for its shift, in an order
\* in which the combined score never increases.
C4_Keyspace ==
    pc = "cracked" =>
        LET sz == IF lang = "ru" THEN 33 ELSE 26
        IN  /\ Len(results) = sz
            /\ {results[i].shift : i \in 1..Len(results)} = 0..(sz - 1)
            /\ \A i \in 1..Len(results) :
                  results[i].text = decrypt(text, results[i].shift, lang)
            /\ \A i \in 1..(Len(results) - 1) :
                  results[i].combined >= results[i + 1].combined

\* the plaintext "that" is ranked first with shift 3 for "Wkdw lv"
C4_Witness ==
    /\ pc = "cracked" /\ lang = "en" /\ text = utf8_encode(<<87, 107, 100, 119, 32, 108, 118>>)
    /\ results[1].shift = 3
    /\ results[1].combined > results[2].combined
    /\ results[26].combined < results[2].combined

\* C5: in every ShiftResult chi-squared is >= 0, the bigram, dictionary and
\* stem scores and the combined score lie in [0,1] and confidence() in
\* [0,100].
C5_Ranges ==
    pc = "cracked" =>
        \A i \in 1..Len(results) :
            LET r == results[i]
            IN  /\ r.chi_sq >= 0
                /\ r.bigram_sc >= 0 /\ r.bigram_sc <= SCALE
                /\ r.dict_sc >= 0 /\ r.dict_sc <= SCALE
                /\ r.stem_sc >= 0 /\ r.stem_sc <= SCALE
                /\ r.combined >= 0 /\ r.combined <= SCALE
                /\ confidence(r) >= 0 /\ confidence(r) <= 100 * SCALE

\* a result whose bigram, dictionary and stem scores are all 1
C5_Witness ==
    /\ pc = "cracked" /\ lang = "en"
    /\ \E i \in 1..Len(results) :
          /\ results[i].bigram_sc = SCALE /\ results[i].dict_sc = SCALE
          /\ results[i].stem_sc = SCALE /\ results[i].combined > (SCALE * 95) \div 100
          /\ results[i].combined <= SCALE

\* the number of letters of language l, of either case, in cs
C18_Letters(cs, l) ==
    Cardinality({i \in 1..Len(cs) : InSeq(LowerOf(l), cs[i]) \/ InSeq(UpperOf(l), cs[i])})

\* the weights (frequency, bigram, dictionary, stem) of the band of n
\* letters, in hundredths
C18_Band(n) ==
    IF n >= 100 THEN [chi |-> 35, bg |-> 10, dict |-> 35, stem |-> 20]
    ELSE IF n >= 30 THEN [chi |-> 20, bg |-> 20, dict |-> 35, stem |-> 25]
    ELSE IF n >= 10 THEN [chi |-> 10, bg |-> 30, dict |-> 35, stem |-> 25]
    ELSE [chi |-> 5, bg |-> 45, dict |-> 30, stem |-> 20]

\* max(0, 1 - chiSquared / 500), times SCALE
C18_ChiPart(chi) == IF chi >= 500 THEN 0 ELSE SCALE - (chi * SCALE) \div 500

\* C18: for every shift the combined score is the sum of max(0, 1 - chi/500),
\* the bigram, the dictionary and the stem score, weighted by the band of the
\* number of letters of the language in the ciphertext (>= 100, >= 30, >= 10,
\* fewer), the same band for all shifts of one text.
C18_Bands ==
    pc = "cracked" =>
        LET w == C18_Band(C18_Letters(utf8_decode(text), lang))
        IN  \A i \in 1..Len(results) :
               results[i].combined =
                  (w.chi * C18_ChiPart(results[i].chi_sq) + w.bg * results[i].bigram_sc
                   + w.dict * results[i].dict_sc + w.stem * results[i].stem_sc) \div 100

\* the English text of exactly 100 letters was cracked: the best result has
\* all four parts above 0, so every weight of the top band counts
C18_Witness ==
    /\ pc = "cracked" /\ lang = "en" /\ text = utf8_encode(Band100Text)
    /\ C18_Letters(utf8_decode(text), lang) = 100
    /\ results[1].shift = 3 /\ results[1].chi_sq < 500 /\ results[1].bigram_sc > 0
    /\ results[1].dict_sc > 0 /\ results[1].stem_sc > 0

(***************************************************************************)
(* crack and detect_mixed on degenerate, short and long texts              *)
(***************************************************************************)
\* the alphabet of the short texts of detect_mixed: 'h', space, '7', o-ru

\* 83 letters under key 3, no space:
\* "theweatherisnicetodayandwearegoingtowalkintheparkwherealltheotherchildrenarewaiting"
OneKeyText ==
    <<119, 107, 104, 122, 104, 100, 119, 107, 104, 117, 108, 118, 113, 108,
      102, 104, 119, 114, 103, 100, 98, 100, 113, 103, 122, 104, 100, 117,
      104, 106, 114, 108, 113, 106, 119, 114, 122, 100, 111, 110, 108, 113,
      119, 107, 104, 115, 100, 117, 110, 122, 107, 104, 117, 104, 100, 111,
      111, 119, 107, 104, 114, 119, 107, 104, 117, 102, 107, 108, 111, 103,
      117, 104, 113, 100, 117, 104, 122, 100, 108, 119, 108, 113, 106>>

\* 103 letters in words, the first 64 characters under key 3, the rest under
\* key 7: "the weather is nice today and we are going to walk in the park
\* where all the other children are waiting for the rain to end there"
TwoKeyText ==
    <<119, 107, 104, 32, 122, 104, 100, 119, 107, 104, 117, 32, 108, 118,
      32, 113, 108, 102, 104, 32, 119, 114, 103, 100, 98, 32, 100, 113, 103,
      32, 122, 104, 32, 100, 117, 104, 32, 106, 114, 108, 113, 106, 32, 119,
      114, 32, 122, 100, 111, 110, 32, 108, 113, 32, 119, 107, 104, 32, 115,
      100, 117, 110, 32, 100, 111, 108, 121, 108, 32, 104, 115, 115, 32, 97,
      111, 108, 32, 118, 97, 111, 108, 121, 32, 106, 111, 112, 115, 107,
      121, 108, 117, 32, 104, 121, 108, 32, 100, 104, 112, 97, 112, 117,
      110, 32, 109, 118, 121, 32, 97, 111, 108, 32, 121, 104, 112, 117, 32,
      97, 118, 32, 108, 117, 107, 32, 97, 111, 108, 121, 108>>

MixedTexts == SeqsUpTo({104, 32, 55, 1086}, MaxMixedLen) \cup {OneKeyText, TwoKeyText}

InitMixed ==
    /\ pc = "start"
    /\ text \in {utf8_encode(t) : t \in MixedTexts}
    /\ lang \in Langs
    /\ dict_file \in DictFiles(lang)
    /\ NoAux /\ NoDecrypt /\ NoBounds /\ NoSplit /\ NoScores

\* segs = detect_mixed(text); the language is the detected one
DetectMixed ==
    /\ pc = "start"
    /\ \E sm \in {mixed_shift_map(text)} :
         \E sd \in smoothings(sm, Len(sm)) :
           \E rss \in {mixed_results(text, dict_words(detect_language(text), dict_file), sd)} :
             \E tie \in 0..(alpha_size(detect_language(text)) - 1) :
                segs' = detect_mixed_sorted(text, sd, rss, tie)
    /\ pc' = "mixed"
    /\ UNCHANGED <<text, lang, decryptVars, boundVars, lsegs, dict_file, words, dres, results, auxVars>>

NextMixed == Crack \/ DetectMixed

SpecMixed == InitMixed /\ [][NextMixed]_vars

\* C10: crack returns one result per shift, so a non-empty list, for every
\* text and language, the empty text and texts without a letter of the
\* language included; detect_mixed returns at least one segment, and the best
\* result of every segment is the first element of a non-empty list: a real
\* result with a shift of the alphabet and the text the segment shows.
C10_NoFatalOutcome ==
    /\ pc = "cracked" =>
          /\ Len(results) = alpha_size(lang)
          /\ Len(results) > 0
          /\ \A i \in 1..Len(results) : results[i].shift \in 0..(alpha_size(lang) - 1)
    /\ pc = "mixed" =>
          /\ Len(segs) >= 1
          /\ \A i \in 1..Len(segs) :
                /\ segs[i].best # UndefinedResult
                /\ segs[i].best.shift \in 0..(alpha_size(detect_language(text)) - 1)
                /\ segs[i].text = segs[i].best.text
                /\ segs[i].start <= segs[i].end

\* detect_mixed was given the empty text: crack ranked the 26 results, none
\* of which has a letter to score, and the segment [0,0) shows the first,
\* here the one std::sort left in front in a run of the program (shift 13)
C10_Witness ==
    /\ pc = "mixed" /\ text = <<>> /\ Len(segs) = 1
    /\ segs[1].start = 0 /\ segs[1].end = 0 /\ segs[1].text = <<>>
    /\ segs[1].best.chi_sq = CHI_EMPTY /\ segs[1].best.combined = 0
    /\ segs[1].best.shift = 13

(***************************************************************************)
(* Dictionary::words(lang), first call: load_ru / load_en                  *)
(***************************************************************************)
\* "ab", "Ab", "a", "a1", "ab ", "ab\r", " ab", ya Yo, a ya, the empty line,
\* a lead byte followed by 'a', 50 and 51 times 'a'
FileLines ==
    {utf8_encode(w) : w \in {<<97, 98>>, <<65, 98>>, <<97>>, <<97, 49>>, <<97, 98, 32>>,
                             <<97, 98, 13>>, <<32, 97, 98>>, <<1103, 1025>>, <<97, 1103>>,
                             <<>>}}
    \cup {<<208, 97>>, [i \in 1..50 |-> 97], [i \in 1..51 |-> 97]}

\* a closing line of 101 '#', without '\n' after it: it makes the file
\* larger than 100 bytes;
\* the files: every line followed by '\n', with and without the closing line
FileContents ==
    LET body(ls) == Flatten([k \in 1..Len(ls) |-> ls[k] \o <<10>>])
    IN  {body(ls) : ls \in SeqsUpTo(FileLines, MaxLines)}
        \cup {body(ls) \o [i \in 1..101 |-> 35] : ls \in SeqsUpTo(FileLines, MaxLines)}

\* text holds the bytes of the dictionary file of the language (no bytes
\* when there is no file)
InitLoad ==
    /\ pc = "start"
    /\ text \in FileContents
    /\ lang \in Langs
    /\ dict_file = {}
    /\ NoAux /\ NoDecrypt /\ NoBounds /\ NoSplit /\ NoScores

\* the first call of words(lang): load_ru or load_en; dict_file is what
\* load_file put into the set, the built-in words are those of dict_words
LoadWords ==
    /\ pc = "start"
    /\ dict_file' = IF find_dict(text) THEN load_file(text) ELSE {}
    /\ pc' = "loaded"
    /\ UNCHANGED <<text, lang, decryptVars, boundVars, lsegs, scoreVars, auxVars>>

NextLoad == LoadWords

SpecLoad == InitLoad /\ [][NextLoad]_vars

\* C11: after the load, every word of the set words(lang) returns is in
\* lower case, has only letters, and is 2 to 50 codepoints long.
C11_WordShape_Claimed ==
    pc = "loaded" =>
        \A w \in dict_words(lang, dict_file) :
            LET c == utf8_decode(w)
            IN  /\ Len(c) >= 2 /\ Len(c) <= 50
                /\ \A i \in 1..Len(c) : InSeq(RuLower, c[i]) \/ InSeq(EnLower, c[i])

(***************************************************************************)
(* utf8_decode on arbitrary bytes                                           *)
(***************************************************************************)
\* the bytes of the strings of utf8_decode: 'a', two continuation bytes, the lead bytes of a 2-, 3- and 4-byte
\* sequence, and 0xF8, which is neither

InitUtf8 ==
    /\ pc = "start"
    /\ text \in SeqsUpTo({97, 128, 143, 208, 226, 240, 248}, MaxBytes)
    /\ lang = "en"
    /\ dict_file = {}
    /\ NoAux /\ NoDecrypt /\ NoBounds /\ NoSplit /\ NoScores

Utf8Decode ==
    /\ pc = "start"
    /\ decoded' = utf8_decode(text)
    /\ pc' = "decoded"
    /\ UNCHANGED <<text, lang, decryptVars, boundVars, lsegs, dict_file, scoreVars,
                   plain, stemmed, stem_sc, indexVars>>

NextUtf8 == Utf8Decode

SpecUtf8 == InitUtf8 /\ [][NextUtf8]_vars

\* the length a lead byte announces, by its high bits; 0 for any other byte
C12_SeqLen(c) ==
    IF c < 128 THEN 1
    ELSE IF c >= 192 /\ c <= 223 THEN 2
    ELSE IF c >= 224 /\ c <= 239 THEN 3
    ELSE IF c >= 240 /\ c <= 247 THEN 4
    ELSE 0

\* the payload of the sequence of len bytes at i, six bits per byte after
\* the lead byte
C12_Payload(s, i, len) ==
    IF len = 1 THEN s[i]
    ELSE IF len = 2 THEN (s[i] % 32) * 64 + (s[i + 1] % 64)
    ELSE IF len = 3 THEN (s[i] % 16) * 4096 + (s[i + 1] % 64) * 64 + (s[i + 2] % 64)
    ELSE (s[i] % 8) * 262144 + (s[i + 1] % 64) * 4096 + (s[i + 2] % 64) * 64 + (s[i + 3] % 64)

\* what the claim says the decoder yields from byte i on: nothing for a byte
\* that is no lead byte (the scan moves on by one), nothing for a sequence
\* that the end of the input cuts short, one codepoint for any other
RECURSIVE C12_Expected(_, _)
C12_Expected(s, i) ==
    IF i > Len(s) THEN <<>>
    ELSE LET len == C12_SeqLen(s[i]) IN
         IF len = 0 THEN C12_Expected(s, i + 1)
         ELSE IF i + len - 1 > Len(s) THEN <<>>
         ELSE <<C12_Payload(s, i, len)>> \o C12_Expected(s, i + len)

\* C12: utf8_decode yields no codepoint for a byte that is not a lead byte
\* and advances by one, and yields no codepoint for a multi-byte sequence that
\* the end of the input cuts short.
C12_Robust_Claimed == pc = "decoded" => decoded = C12_Expected(text, 1)

(***************************************************************************)
(* is_plaintext as a state machine                                          *)
(***************************************************************************)
\* the alphabet of the short texts of is_plaintext: 'o', 'n', 'Z', space, '7', o-ru, n-ru

PlainPhrases ==
    {
      \* "that is it"
      <<116, 104, 97, 116, 32, 105, 115, 32, 105, 116>>,
      \* "they say that"
      <<116, 104, 101, 121, 32, 115, 97, 121, 32, 116, 104, 97, 116>>,
      \* "there there there zzzzzzzz zzzzzzz"
      <<116, 104, 101, 114, 101, 32, 116, 104, 101, 114, 101, 32, 116, 104,
        101, 114, 101, 32, 122, 122, 122, 122, 122, 122, 122, 122, 32, 122,
        122, 122, 122, 122, 122, 122>>,
      \* "there there there zzzzzzz zzzzzzz"
      <<116, 104, 101, 114, 101, 32, 116, 104, 101, 114, 101, 32, 116, 104,
        101, 114, 101, 32, 122, 122, 122, 122, 122, 122, 122, 32, 122, 122,
        122, 122, 122, 122, 122>>,
      \* "zzzzzzzzzzzzzzzzzzzzzzzzzzzzzzzzz"
      <<122, 122, 122, 122, 122, 122, 122, 122, 122, 122, 122, 122, 122,
        122, 122, 122, 122, 122, 122, 122, 122, 122, 122, 122, 122, 122,
        122, 122, 122, 122, 122, 122, 122>>,
      \* "about which they dfgjklmq npqrsvxz"
      <<97, 98, 111, 117, 116, 32, 119, 104, 105, 99, 104, 32, 116, 104,
        101, 121, 32, 100, 102, 103, 106, 107, 108, 109, 113, 32, 110, 112,
        113, 114, 115, 118, 120, 122>>,
      \* "about which they zzzdfgjk zzzqqlmn"
      <<97, 98, 111, 117, 116, 32, 119, 104, 105, 99, 104, 32, 116, 104,
        101, 121, 32, 122, 122, 122, 100, 102, 103, 106, 107, 32, 122, 122,
        122, 113, 113, 108, 109, 110>>,
      \* ru: on i ona
      <<1086, 1085, 32, 1080, 32, 1086, 1085, 1072>>,
      \* ru: byt' three times, then 9 and 9 times shcha
      <<1073, 1099, 1090, 1100, 32, 1073, 1099, 1090, 1100, 32, 1073, 1099,
        1090, 1100, 32, 1097, 1097, 1097, 1097, 1097, 1097, 1097, 1097,
        1097, 32, 1097, 1097, 1097, 1097, 1097, 1097, 1097, 1097, 1097>>,
      \* ru: byt' oni eto and two words of 10 letters, 30 letters with index of coincidence 40/870
      <<1073, 1099, 1090, 1100, 32, 1086, 1085, 1080, 32, 1101, 1090, 1086,
        32, 1097, 1097, 1097, 1094, 1072, 1074, 1075, 1076, 1077, 1078, 32,
        1097, 1097, 1097, 1094, 1094, 1079, 1081, 1082, 1083, 1084>>
    }

PlainTexts == SeqsUpTo({111, 110, 90, 32, 55, 1086, 1085}, MaxPlainLen) \cup PlainPhrases

InitPlain ==
    /\ pc = "start"
    /\ text \in {utf8_encode(t) : t \in PlainTexts}
    /\ lang = "en"
    /\ dict_file \in DictFiles(detect_language(text))
    /\ NoAux /\ NoDecrypt /\ NoBounds /\ NoSplit /\ NoScores

\* plain = is_plaintext(text); lang records the language it detected
IsPlaintext ==
    /\ pc = "start"
    /\ lang' = detect_language(text)
    /\ plain' = is_plaintext(text, dict_words(detect_language(text), dict_file))
    /\ pc' = "judged"
    /\ UNCHANGED <<text, decryptVars, boundVars, lsegs, dict_file, scoreVars,
                   decoded, stemmed, stem_sc, indexVars>>

NextPlain == IsPlaintext

SpecPlain == InitPlain /\ [][NextPlain]_vars

\* the number of letters of language l in cs, and the sum over the letters
\* of l of c * (c - 1), c being how often the letter occurs in either case
C13_Letters(cs, l) == Cardinality({i \in 1..Len(cs) : IsLetterOf(l, cs[i])})
C13_Pairs(cs, l) ==
    LET c(k) == Cardinality({i \in 1..Len(cs) :
                    cs[i] = LowerOf(l)[k] \/ cs[i] = UpperOf(l)[k]})
    IN  SumTo([k \in 1..Len(LowerOf(l)) |-> c(k) * (c(k) - 1)], Len(LowerOf(l)))

\* C13: is_plaintext is true when there are words and matches / totalWords
\* >= 0.7; otherwise, with 30 letters of the detected language or more, it is
\* true exactly when the index of coincidence is above 0.045 (ru) or 0.055
\* (en) and the dictionary score is above 0.4; otherwise it is false.
C13_Rule ==
    pc = "judged" =>
        LET cs    == utf8_decode(text)
            r     == dict_score(extract_words(cs, lang), dict_words(lang, dict_file), lang)
            n     == C13_Letters(cs, lang)
            ratio == r.total > 0 /\ 10 * r.matches >= 7 * r.total
            ic_ok == C13_Pairs(cs, lang) * 1000 > (IF lang = "ru" THEN 45 ELSE 55) * n * (n - 1)
        IN  /\ ratio => plain
            /\ (~ratio /\ n >= 30) => (plain <=> (ic_ok /\ r.score * 10 > 4 * SCALE))
            /\ (~ratio /\ n < 30) => ~plain

\* a text of exactly 30 letters, three words of five in the dictionary, was
\* judged plaintext by its index of coincidence and dictionary score
C13_Witness ==
    /\ pc = "judged" /\ plain /\ lang = "en"
    /\ C13_Letters(utf8_decode(text), "en") = 30
    /\ LET r == dict_score(extract_words(utf8_decode(text), "en"), dict_words("en", dict_file), "en")
       IN  r.total = 5 /\ r.matches = 3

(***************************************************************************)
(* stem_word as a state machine                                             *)
(***************************************************************************)
\* the alphabet of the short words of stem_word: 'd', 'e', 's', o-ru, v-ru

\* "nation", "walks", "saying", domov, gorodov
StemWords ==
    {<<110, 97, 116, 105, 111, 110>>, <<119, 97, 108, 107, 115>>,
     <<115, 97, 121, 105, 110, 103>>, <<1076, 1086, 1084, 1086, 1074>>,
     <<1075, 1086, 1088, 1086, 1076, 1086, 1074>>}

InitStem ==
    /\ pc = "start"
    /\ text \in {utf8_encode(w) : w \in SeqsUpTo({100, 101, 115, 1086, 1074}, MaxStemLen) \cup StemWords}
    /\ lang \in Langs
    /\ dict_file = {}
    /\ NoAux /\ NoDecrypt /\ NoBounds /\ NoSplit /\ NoScores

\* stemmed = stem_word(text, lang)
StemWord ==
    /\ pc = "start"
    /\ stemmed' = stem_word(text, lang)
    /\ pc' = "stemmed"
    /\ UNCHANGED <<text, lang, decryptVars, boundVars, lsegs, dict_file, scoreVars,
                   decoded, plain, stem_sc, indexVars>>

NextStem == StemWord

SpecStem == InitStem /\ [][NextStem]_vars

\* the numbers of the suffixes of language l that end the word w (in
\* codepoints) and leave a base of at least minStemLength codepoints
C14_Fitting(w, l) ==
    LET sufs == IF l = "ru" THEN RU_SUFFIX_CPS ELSE EN_SUFFIX_CPS
        least == IF l = "ru" THEN 3 ELSE 2
    IN  {k \in 1..Len(sufs) :
            /\ Len(w) - Len(sufs[k]) >= least
            /\ SubSeq(w, Len(w) - Len(sufs[k]) + 1, Len(w)) = sufs[k]}

\* the word the rule of the claim gives: w without the first fitting suffix
C14_Expected(w, l) ==
    LET sufs == IF l = "ru" THEN RU_SUFFIX_CPS ELSE EN_SUFFIX_CPS
        fit  == C14_Fitting(w, l)
    IN  IF fit = {} THEN w
        ELSE SubSeq(w, 1, Len(w) - Len(sufs[CHOOSE k \in fit : \A k2 \in fit : k <= k2]))

\* C14: stem_word strips the first suffix of the list that ends the word and
\* leaves a base of at least minStemLength characters (3 ru, 2 en), a base of
\* exactly minStemLength included, and returns any other word unchanged.
C14_SuffixRule_Claimed ==
    pc = "stemmed" => stemmed = utf8_encode(C14_Expected(utf8_decode(text), lang))

\* how often the key k occurs in the shift map at the positions (0-based)
\* max(0, i - 7) .. min(n - 1, i + 7)
C15_Count(i, k) ==
    Cardinality({j \in Max(0, i - 7)..Min(Len(smap) - 1, i + 7) : smap[j + 1] = k})

\* the keys with the highest count around position i
C15_Modes(i) ==
    {k \in Range(smap) : \A k2 \in Range(smap) : C15_Count(i, k2) <= C15_Count(i, k)}

\* C15: the smoothed value of every position is a key with the highest count
\* among the positions at most 7 away, and when several keys tie for the
\* highest count and the position's own key is one of them, the position
\* keeps its own key.
C15_Smoothing_Claimed ==
    pc = "bounds" =>
        \A i \in 0..(Len(smap) - 1) :
            /\ smoothed[i + 1] \in C15_Modes(i)
            /\ (Cardinality(C15_Modes(i)) >= 2 /\ smap[i + 1] \in C15_Modes(i))
                  => smoothed[i + 1] = smap[i + 1]

\* C16: for a text with fewer than 80 letters of its detected language,
\* detect_mixed returns exactly one segment, whose best is the top result of
\* crack on the whole text and whose span is start = 0, end = the length of
\* the text in codepoints.
C16_ShortPath_Claimed ==
    (pc = "mixed"
        /\ C13_Letters(utf8_decode(text), detect_language(text)) < 80) =>
        LET l    == detect_language(text)
            dict == dict_words(l, dict_file)
        IN  /\ Len(segs) = 1
            /\ segs[1].start = 0
            /\ segs[1].end = Len(utf8_decode(text))
            /\ segs[1].best.shift \in 0..(alpha_size(l) - 1)
            /\ segs[1].best = analyze_shift(text, segs[1].best.shift, l, dict)
            /\ \A k \in 0..(alpha_size(l) - 1) :
                  analyze_shift(text, k, l, dict).combined <= segs[1].best.combined

\* the language of the letter c, "" for any other codepoint
C17_LangOf(c) ==
    IF InSeq(RuLower, c) \/ InSeq(RuUpper, c) THEN "ru"
    ELSE IF InSeq(EnLower, c) \/ InSeq(EnUpper, c) THEN "en"
    ELSE ""

\* the last letter before position i (0-based) of cs, -1 when there is none
C17_PrevLetter(cs, i) ==
    LET before == {j \in 0..(i - 1) : C17_LangOf(cs[j + 1]) # ""}
    IN  IF before = {} THEN -1 ELSE CHOOSE j \in before : \A j2 \in before : j2 <= j

\* the language transitions of cs: the positions (0-based) of the letters
\* whose language differs from the one of the last letter before them
C17_Transitions(cs) ==
    SortedSeq({i \in 0..(Len(cs) - 1) :
                  /\ C17_LangOf(cs[i + 1]) # ""
                  /\ C17_PrevLetter(cs, i) >= 0
                  /\ C17_LangOf(cs[C17_PrevLetter(cs, i) + 1]) # C17_LangOf(cs[i + 1])})

\* C17 (as claimed): on each language transition at codepoint i the boundary
\* is just after the nearest space, tab or newline among the 10 codepoints
\* before i (fewer when the text begins sooner), and exactly at i when there
\* is none; the segment closed there is tagged with the language in force
\* before the transition.
C17_Boundary_Claimed ==
    pc = "split" =>
        LET cs == utf8_decode(text)
            tr == C17_Transitions(cs)
        IN  \A k \in 1..Len(tr) :
               LET i  == tr[k]
                   ws == {j \in Max(i - 10, 0)..(i - 1) : cs[j + 1] \in {32, 9, 10}}
               IN  /\ Len(lsegs) = Len(tr) + 1
                   /\ lsegs[k].end = IF ws = {} THEN i
                                     ELSE (CHOOSE j \in ws : \A j2 \in ws : j2 <= j) + 1
                   /\ lsegs[k].lang = C17_LangOf(cs[C17_PrevLetter(cs, i) + 1])

\* C17 (amended): on each language transition at codepoint i the boundary is
\* just after the nearest space, tab or newline among the codepoints before
\* i, at most 10 of them and none before the start of the segment being
\* closed, and exactly at i when there is none; the segment closed there is
\* tagged with the language in force before the transition, and the next one
\* starts at the boundary.
C17_Boundary ==
    pc = "split" =>
        LET cs == utf8_decode(text)
            tr == C17_Transitions(cs)
        IN  \A k \in 1..Len(tr) :
               LET i  == tr[k]
                   ws == {j \in Max(i - 10, lsegs[k].start)..(i - 1) : cs[j + 1] \in {32, 9, 10}}
               IN  /\ Len(lsegs) = Len(tr) + 1
                   /\ lsegs[k].end = IF ws = {} THEN i
                                     ELSE (CHOOSE j \in ws : \A j2 \in ws : j2 <= j) + 1
                   /\ lsegs[k].lang = C17_LangOf(cs[C17_PrevLetter(cs, i) + 1])
                   /\ lsegs[k + 1].start = lsegs[k].end

\* "a aaaaaaaaab": the change to Russian at position 11 found the space 10
\* codepoints back and closed the English segment [0,2)
C17_Witness ==
    /\ pc = "split"
    /\ text = utf8_encode(<<97, 32>> \o [k \in 1..9 |-> 97] \o <<1073>>)
    /\ Len(lsegs) = 2
    /\ lsegs[1].lang = "en" /\ lsegs[1].start = 0 /\ lsegs[1].end = 2
    /\ lsegs[2].lang = "ru" /\ lsegs[2].start = 2 /\ lsegs[2].end = 12

(***************************************************************************)
(* stem_dict_score as a state machine                                       *)
(***************************************************************************)
\* en: "the", "saying", "thex", "anx", "ax", "xq";
\* ru: vse, vs(yo), onazh, nakh, shchshch
StemScoreWords(l) ==
    IF l = "ru"
    THEN {utf8_encode(w) : w \in {<<1074, 1089, 1077>>, <<1074, 1089, 1105>>,
                                  <<1086, 1085, 1072, 1078>>, <<1085, 1072, 1093>>,
                                  <<1097, 1097>>}}
    ELSE {utf8_encode(w) : w \in {<<116, 104, 101>>, <<115, 97, 121, 105, 110, 103>>,
                                  <<116, 104, 101, 120>>, <<97, 110, 120>>, <<97, 120>>,
                                  <<120, 113>>}}

InitStemScore ==
    /\ pc = "start"
    /\ text = <<>>
    /\ lang \in Langs
    /\ dict_file \in DictFiles(lang)
    /\ words \in SeqsUpTo(StemScoreWords(lang), MaxStemWords)
    /\ dres = <<>> /\ results = <<>> /\ segs = <<>>
    /\ NoAux /\ NoDecrypt /\ NoBounds /\ NoSplit

\* stem_sc = stem_dict_score(words, dictionary, lang)
StemDictScore ==
    /\ pc = "start"
    /\ stem_sc' = stem_dict_score(words, dict_words(lang, dict_file), lang)
    /\ pc' = "stem_scored"
    /\ UNCHANGED <<text, lang, decryptVars, boundVars, lsegs, dict_file, scoreVars,
                   decoded, plain, stemmed, indexVars>>

NextStemScore == StemDictScore

SpecStemScore == InitStemScore /\ [][NextStemScore]_vars

\* the word w after the normalization of yo (ru) and stem_word, in codepoints
C19_Stem(w, l) == utf8_decode(stem_word(IF l = "ru" THEN normalize_yo(w) ELSE w, l))

\* the words of the list of which a truncation to k codepoints, k from the
\* least stem length (3 ru, 2 en) up to most, is in the dictionary D
C19_Hits(ws, D, l, most(_)) ==
    Cardinality({i \in 1..Len(ws) :
        \E k \in (IF l = "ru" THEN 3 ELSE 2)..most(C19_Stem(ws[i], l)) :
            utf8_encode(SubSeq(C19_Stem(ws[i], l), 1, k)) \in D})

C19_AfterDrop(s) == Len(s) - 1
C19_Whole(s) == Len(s)

\* C19 (as claimed): the stem of each word is looked up only after a last
\* character has been dropped, again and again while at least minStemLength
\* characters remain; the score is the number of words with a match divided
\* by the number of words, 0 for an empty list.
C19_StemScore_Claimed ==
    pc = "stem_scored" =>
        stem_sc = IF Len(words) = 0 THEN 0
                  ELSE (C19_Hits(words, dict_words(lang, dict_file), lang, C19_AfterDrop)
                           * SCALE) \div Len(words)

\* C19 (amended): the stem of each word is looked up as it is and then after
\* each dropped last character, while at least minStemLength characters
\* remain; the score is the number of words with a match divided by the
\* number of words, 0 for an empty list.
C19_StemScore ==
    pc = "stem_scored" =>
        stem_sc = IF Len(words) = 0 THEN 0
                  ELSE (C19_Hits(words, dict_words(lang, dict_file), lang, C19_Whole)
                           * SCALE) \div Len(words)

\* "the" (in the dictionary as it is) and "xq" were scored: one hit of two
C19_Witness ==
    /\ pc = "stem_scored" /\ lang = "en"
    /\ words = <<<<116, 104, 101>>, <<120, 113>>>>
    /\ stem_sc = SCALE \div 2

(***************************************************************************)
(* The index functions as a state machine: an index of the alphabet is     *)
(* turned into its letter (ru_from_index, en_from_index), the letter may   *)
(* be put in upper case (to_upper), and the letter is turned into an index *)
(* again (ru_index, en_index)                                              *)
(***************************************************************************)
InitIndex ==
    /\ pc = "start"
    /\ text = <<>>
    /\ lang \in Langs
    /\ from_idx \in 0..(alpha_size(lang) - 1)
    /\ letter = 0 /\ to_idx = -1
    /\ dict_file = {}
    /\ decoded = <<>> /\ plain = FALSE /\ stemmed = <<>> /\ stem_sc = 0
    /\ NoDecrypt /\ NoBounds /\ NoSplit /\ NoScores

\* letter = from_fn(from_idx)
FromIndex ==
    /\ pc = "start"
    /\ letter' = from_fn(lang, from_idx)
    /\ pc' = "lower"
    /\ UNCHANGED <<text, lang, decryptVars, boundVars, lsegs, dict_file, scoreVars,
                   decoded, plain, stemmed, stem_sc, from_idx, to_idx>>

\* letter = to_upper(letter)
ToUpper ==
    /\ pc = "lower"
    /\ letter' = to_upper(letter)
    /\ pc' = "upper"
    /\ UNCHANGED <<text, lang, decryptVars, boundVars, lsegs, dict_file, scoreVars,
                   decoded, plain, stemmed, stem_sc, from_idx, to_idx>>

\* to_idx = idx_fn(letter)
ToIndex ==
    /\ pc \in {"lower", "upper"}
    /\ to_idx' = idx_fn(lang, letter)
    /\ pc' = IF pc = "lower" THEN "lower_indexed" ELSE "upper_indexed"
    /\ UNCHANGED <<text, lang, decryptVars, boundVars, lsegs, dict_file, scoreVars,
                   decoded, plain, stemmed, stem_sc, from_idx, letter>>

NextIndex == FromIndex \/ ToUpper \/ ToIndex

SpecIndex == InitIndex /\ [][NextIndex]_vars

\* C21: the letter of index i is the letter at place i of the alphabet in
\* alphabet order (yo at index 6 in Russian), the index of that letter is i
\* again, and the index of its upper-case form is i as well, for every
\* index i of either alphabet.
C21_IndexMapping ==
    /\ pc \in {"lower", "lower_indexed"} => letter = LowerOf(lang)[from_idx + 1]
    /\ pc \in {"lower_indexed", "upper_indexed"} => to_idx = from_idx
    /\ pc \in {"upper", "upper_indexed"} => letter = UpperOf(lang)[from_idx + 1]

\* index 6 of the Russian alphabet went to Yo (upper case) and back to 6
C21_Witness ==
    /\ pc = "upper_indexed" /\ lang = "ru"
    /\ from_idx = 6 /\ letter = 1025 /\ to_idx = 6

(***************************************************************************)
(* Properties of the segments of split_by_language                         *)
(***************************************************************************)
\* the texts of the segments sgs one after the other
RECURSIVE C22_Concat(_)
C22_Concat(sgs) == IF sgs = <<>> THEN <<>> ELSE Head(sgs).text \o C22_Concat(Tail(sgs))

C23_TaggedLetter_Claimed ==
    pc = "split" =>
        \A k \in 1..Len(lsegs) :
            \E i \in (lsegs[k].start + 1)..lsegs[k].end :
                IsLetterOf(lsegs[k].lang, utf8_decode(text)[i])

====
